---------------------------- MODULE Spec2Model ----------------------------
(***************************************************************************)
(* A model of frdocs' identifier pipeline (extract / standardize /         *)
(* resolve), of its batch driver and of its structural parsers.            *)
(*                                                                         *)
(* Text is a sequence of one-character strings, so that every regular      *)
(* expression of the source is matched character by character.  Python's   *)
(* None is the one-element sequence <<"None">>, which no text equals       *)
(* because every element of a text is a single character.                  *)
(***************************************************************************)
EXTENDS Integers, Sequences, FiniteSets, TLC

None == <<"None">>

\* what stands for a raised exception where a text is expected
TypeError == <<"TypeError">>

(***************************************************************************)
(* Character classes                                                       *)
(***************************************************************************)
Digits == {"0", "1", "2", "3", "4", "5", "6", "7", "8", "9"}

Lower == {"a", "b", "c", "d", "e", "f", "g", "h", "i", "j", "k", "l", "m",
          "n", "o", "p", "q", "r", "s", "t", "u", "v", "w", "x", "y", "z"}

Upper == {"A", "B", "C", "D", "E", "F", "G", "H", "I", "J", "K", "L", "M",
          "N", "O", "P", "Q", "R", "S", "T", "U", "V", "W", "X", "Y", "Z"}

\* \s of the regular expressions
Space == {" ", "\n", "\t"}

\* str.upper() on one character
UpperChar(ch) ==
  CASE ch = "a" -> "A" [] ch = "b" -> "B" [] ch = "c" -> "C" [] ch = "d" -> "D"
    [] ch = "e" -> "E" [] ch = "f" -> "F" [] ch = "g" -> "G" [] ch = "h" -> "H"
    [] ch = "i" -> "I" [] ch = "j" -> "J" [] ch = "k" -> "K" [] ch = "l" -> "L"
    [] ch = "m" -> "M" [] ch = "n" -> "N" [] ch = "o" -> "O" [] ch = "p" -> "P"
    [] ch = "q" -> "Q" [] ch = "r" -> "R" [] ch = "s" -> "S" [] ch = "t" -> "T"
    [] ch = "u" -> "U" [] ch = "v" -> "V" [] ch = "w" -> "W" [] ch = "x" -> "X"
    [] ch = "y" -> "Y" [] ch = "z" -> "Z" [] OTHER -> ch

\* str.upper()
StrUpper(s) == [k \in 1..Len(s) |-> UpperChar(s[k])]

\* s[a:b] with 1-based a and exclusive b
Slice(s, a, b) == IF b <= a THEN <<>> ELSE SubSeq(s, a, b - 1)

(***************************************************************************)
(* Regular expressions, as Python's backtracking matcher runs them.        *)
(* ReM(r, s, i, c) is the sequence of all the ways r matches s from        *)
(* position i, in the order the matcher tries them: the first element is   *)
(* the match the matcher reports.  c maps each group name to the sequence  *)
(* of the spans <<start, end>> it captured (end exclusive).                *)
(***************************************************************************)
ReSet(cs)       == [t |-> "set", cs |-> cs, neg |-> FALSE]
ReNot(cs)       == [t |-> "set", cs |-> cs, neg |-> TRUE]
ReChr(ch)       == ReSet({ch})
ReSeqOf(rs)     == [t |-> "seq", rs |-> rs]
ReAlt(rs)       == [t |-> "alt", rs |-> rs]
ReRepOf(r, lo, hi) == [t |-> "rep", r |-> r, lo |-> lo, hi |-> hi, lazy |-> FALSE]
ReLazy(r, lo, hi)  == [t |-> "rep", r |-> r, lo |-> lo, hi |-> hi, lazy |-> TRUE]
ReInf           == -1
ReOpt(r)        == ReRepOf(r, 0, 1)
ReStar(r)       == ReRepOf(r, 0, ReInf)
RePlus(r)       == ReRepOf(r, 1, ReInf)
ReGrp(name, r)  == [t |-> "grp", name |-> name, r |-> r]
ReEnd           == [t |-> "end"]
ReAhead(r)      == [t |-> "ahead", r |-> r]
ReNotAhead(r)   == [t |-> "nahead", r |-> r]
ReBehind(r)     == [t |-> "behind", r |-> r]
ReNotBehind(r)  == [t |-> "nbehind", r |-> r]
ReWordB         == [t |-> "wordb"]
ReAny           == ReNot({"\n"})
ReLit(s)        == ReSeqOf([k \in 1..Len(s) |-> ReChr(s[k])])

\* \w of the regular expressions
WordChars == Lower \cup Upper \cup Digits \cup {"_"}

\* s has a word character at position i
IsWordAt(s, i) == i >= 1 /\ i <= Len(s) /\ s[i] \in WordChars

RECURSIVE ReM(_, _, _, _)
RECURSIVE ReSeqFrom(_, _, _, _, _)
RECURSIVE ReSeqCat(_, _, _, _, _)
RECURSIVE ReAltFrom(_, _, _, _, _)
RECURSIVE ReRep(_, _, _, _, _)
RECURSIVE ReRepCat(_, _, _, _, _)

\* a match of r ends just before position i: the look-behind assertions
ReEndsAt(r, s, i, c) ==
  \E j \in 1..i : \E w \in 1..Len(ReM(r, s, j, c)) : ReM(r, s, j, c)[w].i = i

ReSeqFrom(rs, k, s, i, c) ==
  IF k > Len(rs) THEN << [i |-> i, c |-> c] >>
  ELSE ReSeqCat(ReM(rs[k], s, i, c), 1, rs, k + 1, s)

ReSeqCat(L, j, rs, k, s) ==
  IF j > Len(L) THEN <<>>
  ELSE ReSeqFrom(rs, k, s, L[j].i, L[j].c) \o ReSeqCat(L, j + 1, rs, k, s)

ReAltFrom(rs, k, s, i, c) ==
  IF k > Len(rs) THEN <<>>
  ELSE ReM(rs[k], s, i, c) \o ReAltFrom(rs, k + 1, s, i, c)

\* n repetitions are done; an iteration that consumes nothing is not repeated
ReRep(r, s, i, c, n) ==
  LET more == IF r.hi = ReInf \/ n < r.hi
              THEN ReRepCat(ReM(r.r, s, i, c), 1, r, s, n + 1)
              ELSE <<>>
      stop == IF n >= r.lo THEN << [i |-> i, c |-> c] >> ELSE <<>>
  IN IF r.lazy THEN stop \o more ELSE more \o stop

ReRepCat(L, j, r, s, n) ==
  IF j > Len(L) THEN <<>>
  ELSE (IF L[j].i > Len(s) + 1 THEN <<>> ELSE ReRep(r, s, L[j].i, L[j].c, n))
       \o ReRepCat(L, j + 1, r, s, n)

ReM(r, s, i, c) ==
  CASE r.t = "set" ->
         IF i <= Len(s) /\ ((s[i] \in r.cs) # r.neg)
         THEN << [i |-> i + 1, c |-> c] >> ELSE <<>>
    [] r.t = "seq" -> ReSeqFrom(r.rs, 1, s, i, c)
    [] r.t = "alt" -> ReAltFrom(r.rs, 1, s, i, c)
    [] r.t = "rep" -> ReRep(r, s, i, c, 0)
    [] r.t = "grp" ->
         LET L == ReM(r.r, s, i, c)
         IN [j \in 1..Len(L) |->
               [i |-> L[j].i,
                c |-> [L[j].c EXCEPT ![r.name] = Append(@, <<i, L[j].i>>)]]]
    [] r.t = "end" ->
         \* $ : the end of the text, or just before its last newline
         IF i = Len(s) + 1 \/ (i = Len(s) /\ s[i] = "\n")
         THEN << [i |-> i, c |-> c] >> ELSE <<>>
    [] r.t = "wordb" ->
         \* \b : a word character on one side only
         IF IsWordAt(s, i - 1) # IsWordAt(s, i)
         THEN << [i |-> i, c |-> c] >> ELSE <<>>
    [] r.t = "nahead" ->
         IF ReM(r.r, s, i, c) = <<>> THEN << [i |-> i, c |-> c] >> ELSE <<>>
    [] r.t = "behind" ->
         IF ReEndsAt(r.r, s, i, c) THEN << [i |-> i, c |-> c] >> ELSE <<>>
    [] r.t = "nbehind" ->
         IF ReEndsAt(r.r, s, i, c) THEN <<>> ELSE << [i |-> i, c |-> c] >>
    [] r.t = "ahead" ->
         IF ReM(r.r, s, i, c) # <<>> THEN << [i |-> i, c |-> c] >> ELSE <<>>

NoMatch == [ok |-> FALSE]

\* the match object of the first of the ways L found from position from
ReFirst(L, from) ==
  IF L = <<>> THEN NoMatch
  ELSE [ok |-> TRUE, start |-> from, end |-> L[1].i, c |-> L[1].c]

\* the ways of L that consume something, when nonEmpty
ReNonEmpty(L, from, nonEmpty) ==
  IF nonEmpty THEN SelectSeq(L, LAMBDA x : x.i > from) ELSE L

\* The match the matcher reports at position from.  nonEmpty: an empty match
\* is refused (finditer, right after an empty match at this position).
ReMatchAtNE(r, groups, s, from, nonEmpty) ==
  ReFirst(ReNonEmpty(ReM(r, s, from, [g \in groups |-> <<>>]), from, nonEmpty), from)

\* m when it is a match, else the match found further on
ReOrElse(m, further) == IF m.ok THEN m ELSE further

\* re.search from position from on: the leftmost position with a match
RECURSIVE ReSearchFrom(_, _, _, _, _)
ReSearchFrom(r, groups, s, from, noEmptyAt) ==
  IF from > Len(s) + 1 THEN NoMatch
  ELSE ReOrElse(ReMatchAtNE(r, groups, s, from, from = noEmptyAt),
                ReSearchFrom(r, groups, s, from + 1, noEmptyAt))

\* re.match(r, s)
ReMatch(r, groups, s)  == ReMatchAtNE(r, groups, s, 1, FALSE)

\* re.search(r, s)
ReSearch(r, groups, s) == ReSearchFrom(r, groups, s, 1, 0)

\* m.group(0)
Group0(m, s) == Slice(s, m.start, m.end)

\* m.group(name): the last capture of the group, None when it took no part
Group(m, name, s) ==
  IF m.c[name] = <<>> THEN None
  ELSE Slice(s, m.c[name][Len(m.c[name])][1], m.c[name][Len(m.c[name])][2])

\* re.finditer: the successive non-overlapping matches, left to right.  Right
\* after an empty match the next match at the same position must be non-empty.
RECURSIVE ReFindIter(_, _, _, _, _)
RECURSIVE ReFindIterNext(_, _, _, _)
ReFindIter(r, groups, s, from, noEmptyAt) ==
  ReFindIterNext(ReSearchFrom(r, groups, s, from, noEmptyAt), r, groups, s)

\* m is the match just found: yield it and go on from its end
ReFindIterNext(m, r, groups, s) ==
  IF ~m.ok THEN <<>>
  ELSE <<m>> \o ReFindIter(r, groups, s, m.end,
                           IF m.end = m.start THEN m.end ELSE 0)

\* [m.group(0) for m in ms]
Group0s(ms, s) == [k \in 1..Len(ms) |-> Group0(ms[k], s)]

\* [m.group(0) for m in re.finditer(r, s)]
ReFindAll(r, s) == Group0s(ReFindIter(r, {}, s, 1, 0), s)

\* re.sub(r, repl, s) for a replacement text without group references
RECURSIVE ReSubFrom(_, _, _, _, _)
ReSubFrom(ms, k, repl, s, from) ==
  IF k > Len(ms) THEN Slice(s, from, Len(s) + 1)
  ELSE Slice(s, from, ms[k].start) \o repl
       \o ReSubFrom(ms, k + 1, repl, s, ms[k].end)

ReSub(r, repl, s) == ReSubFrom(ReFindIter(r, {}, s, 1, 0), 1, repl, s, 1)

(***************************************************************************)
(* str methods                                                             *)
(***************************************************************************)
\* s.replace(ch, '')
StrRemove(s, ch) == SelectSeq(s, LAMBDA x : x # ch)

\* s.split(ch): the parts between the occurrences of ch
RECURSIVE StrSplitFrom(_, _, _, _)
StrSplitFrom(s, ch, k, cur) ==
  IF k > Len(s) THEN <<cur>>
  ELSE IF s[k] = ch THEN <<cur>> \o StrSplitFrom(s, ch, k + 1, <<>>)
       ELSE StrSplitFrom(s, ch, k + 1, Append(cur, s[k]))

StrSplit(s, ch) == StrSplitFrom(s, ch, 1, <<>>)

\* sep.join(parts)
RECURSIVE StrJoin(_, _)
StrJoin(parts, sep) ==
  IF parts = <<>> THEN <<>>
  ELSE IF Len(parts) = 1 THEN parts[1]
       ELSE parts[1] \o sep \o StrJoin(Tail(parts), sep)

\* a in b for two texts
IsSubstring(a, b) ==
  \E k \in 1..(Len(b) - Len(a) + 1) : SubSeq(b, k, k + Len(a) - 1) = a

\* str(int(s)) for a text of decimal digits: the leading zeros go
RECURSIVE StripLeadingZeros(_)
StripLeadingZeros(s) ==
  IF Len(s) > 1 /\ s[1] = "0" THEN StripLeadingZeros(Tail(s)) ELSE s

(***************************************************************************)
(* standardize_frdoc_number                                                *)
(***************************************************************************)
\* As StripTrailingNonDigits with the pattern [^0-9]$ : one character only
StripOneTrailingNonDigit(d) ==
  ReSub(ReSeqOf(<<ReNot(Digits), ReEnd>>), <<>>, d)

\* re.sub(r'[^0-9]+$','',d)
StripTrailingNonDigits(d) ==
  ReSub(ReSeqOf(<<RePlus(ReNot(Digits)), ReEnd>>), <<>>, d)

\* int(s) succeeds: s is a text of decimal digits
IsInt(s) == s # <<>> /\ \A k \in 1..Len(s) : s[k] \in Digits

\* parts[-1] = str(int(parts[-1])), left alone when int() raises
IntLast(parts) ==
  IF IsInt(parts[Len(parts)])
  THEN [parts EXCEPT ![Len(parts)] = StripLeadingZeros(@)]
  ELSE parts

\* The iterable of "for i in range(len(parts)-1) in parts[:-1]": the value of
\* the membership test "<range> in <list of str>", a bool.  No str equals a range.
YearLoopIterable(parts) == \E k \in 1..(Len(parts) - 1) : parts[k] = <<"range">>

\* The for statement: iterating a bool raises TypeError before the body runs,
\* so the year is never cleaned and control passes to the except clause.
CleanYear(parts) ==
  IF YearLoopIterable(parts) \in BOOLEAN
  THEN [raised |-> TRUE, parts |-> parts]
  ELSE [raised |-> FALSE, parts |-> parts]

\* From "parts = d.rsplit('-')" on; d is the identifier as reassigned so far
StandardizeParts(d) ==
  IF CleanYear(StrSplit(d, "-")).raised
  THEN d   \* except Exception: return d
  ELSE StrJoin(IntLast(CleanYear(StrSplit(d, "-")).parts), <<"-">>)

\* The exception raised inside the try block, "none" when it runs through:
\* re.sub raises TypeError on a non-string, the for statement on every string
TryException(d) ==
  IF d = None THEN "TypeError"
  ELSE IF CleanYear(StrSplit(StrRemove(StripTrailingNonDigits(d), "E"), "-")).raised
       THEN "TypeError"
       ELSE "none"

\* As ExceptException for a handler "except ValueError"
ExceptValueError(exc) == exc = "ValueError"

\* "except Exception": the handler takes every exception of the try block
ExceptException(exc) == exc \in {"TypeError", "ValueError", "IndexError", "AttributeError"}

\* The call raises when the try block raises what the handler does not take;
\* the result is then the exception
standardize_frdoc_number(d) ==
  IF TryException(d) # "none" /\ ~ExceptException(TryException(d))
  THEN TypeError
  ELSE IF d = None
  THEN d   \* re.sub raises TypeError on a non-string; except: return d
  ELSE StandardizeParts(StrRemove(StripTrailingNonDigits(d), "E"))

(***************************************************************************)
(* extract_frdoc_number                                                    *)
(***************************************************************************)
\* unidecode(s): the texts of the model are ASCII, which unidecode keeps
unidecode(s) == s

ReDigit == ReSet(Digits)
ReSpace == ReSet(Space)

\* As fr_pattern with part2 written [EZ]?\d : one digit only
fr_pattern_one_digit ==
  ReSeqOf(<<
    ReOpt(ReSeqOf(<<
      ReGrp("part1", ReSeqOf(<<ReSet({"C", "R", "X", "c", "r", "x"}), ReStar(ReSet(Digits))>>)),
      ReStar(ReSet(Space \cup {"-"})) >>)),
    ReGrp("part2", ReSeqOf(<<ReOpt(ReSet({"E", "Z", "e", "z"})), ReSet(Digits)>>)),
    ReOpt(ReSeqOf(<<
      ReOpt(ReSet(Space)), RePlus(ReChr("-")), ReOpt(ReSet(Space)),
      ReGrp("part3", ReStar(ReSet(Digits))) >>)) >>)

\* fr_pattern (re.VERBOSE drops its blanks and comments; re.IGNORECASE)
\*   ((?P<part1>[CRX]\d*)[\s-]*)?  (?P<part2>[EZ]?\d+)  (\s?-+\s?(?P<part3>\d*))?
fr_pattern ==
  ReSeqOf(<<
    ReOpt(ReSeqOf(<<
      ReGrp("part1", ReSeqOf(<<ReSet({"C", "R", "X", "c", "r", "x"}), ReStar(ReDigit)>>)),
      ReStar(ReSet(Space \cup {"-"})) >>)),
    ReGrp("part2", ReSeqOf(<<ReOpt(ReSet({"E", "Z", "e", "z"})), RePlus(ReDigit)>>)),
    ReOpt(ReSeqOf(<<
      ReOpt(ReSpace), RePlus(ReChr("-")), ReOpt(ReSpace),
      ReGrp("part3", ReStar(ReDigit)) >>)) >>)

FrGroups == {"part1", "part2", "part3"}

\* Case 1:  FR\sDoc\.?\s*{fr_pattern}
PatternA ==
  ReSeqOf(<< ReSet({"F", "f"}), ReSet({"R", "r"}), ReSpace,
             ReSet({"D", "d"}), ReSet({"O", "o"}), ReSet({"C", "c"}),
             ReOpt(ReChr(".")), ReStar(ReSpace), fr_pattern >>)

\* Case 2:  [.\s]{fr_pattern};?\s*Fil
PatternB ==
  ReSeqOf(<< ReSet(Space \cup {"."}), fr_pattern,
             ReOpt(ReChr(";")), ReStar(ReSpace),
             ReSet({"F", "f"}), ReSet({"I", "i"}), ReSet({"L", "l"}) >>)

\* As FrdocMatchOr with Case 2 tried first and Case 1 only when it fails
FrdocMatchPreferB(mA, s) ==
  IF ReSearch(PatternB, FrGroups, s).ok
  THEN ReSearch(PatternB, FrGroups, s)
  ELSE mA

\* "if not m or len(m.group(0)) < 3": Case 2 replaces the match mA of Case 1
FrdocMatchOr(mA, s) ==
  IF ~mA.ok \/ Len(Group0(mA, s)) < 3
  THEN ReSearch(PatternB, FrGroups, s)
  ELSE mA

\* The match object the function works from: Case 1, else Case 2
FrdocMatch(s) == FrdocMatchOr(ReSearch(PatternA, FrGroups, s), s)

\* "if m.group(...)": the group took part and is not empty
Truthy(g) == g # None /\ g # <<>>

\* Rebuild the document number from parts
RebuildFrdoc(m, s) ==
  StrUpper(unidecode(
    (IF Truthy(Group(m, "part1", s)) THEN Group(m, "part1", s) \o <<"-">> ELSE <<>>)
    \o Group(m, "part2", s)
    \o (IF Truthy(Group(m, "part3", s)) THEN <<"-">> \o Group(m, "part3", s) ELSE <<>>)))

\* "if m: ... return d   else: return None"
FrdocOfMatch(m, s) == IF m.ok THEN RebuildFrdoc(m, s) ELSE None

extract_frdoc_number(s) == FrdocOfMatch(FrdocMatch(unidecode(s)), unidecode(s))

(***************************************************************************)
(* FrdocResolver                                                           *)
(* info_df is the sequence of the registry's rows; doc_info is one filing. *)
(***************************************************************************)
\* self.info_df['standardized_frdoc'] (__init__)
standardized_frdoc(row) == standardize_frdoc_number(row.frdoc_number)

\* re.sub(r'\s','',s)
NoSpace(s) == SelectSeq(s, LAMBDA x : x \notin Space)

\* self.all_frdocs (__init__): the ids that are not blank
all_frdocs(info_df) ==
  {info_df[k].frdoc_number : k \in {j \in 1..Len(info_df) : NoSpace(info_df[j].frdoc_number) # <<>>}}

\* if doc_info['frdoc_string']:
HasFrdocString(doc_info) ==
  doc_info.frdoc_string # None /\ doc_info.frdoc_string # <<>>

\* As RowsStandardizedAs comparing the rows' ids as they are in the registry
RowsStandardizedAsRaw(info_df, sd) ==
  SelectSeq(info_df, LAMBDA row : sd # None /\ row.frdoc_number = sd)

\* Search based on the standardized frdoc number.  A comparison of the
\* column with None selects no row.
RowsStandardizedAs(info_df, sd) ==
  SelectSeq(info_df, LAMBDA row : sd # None /\ standardized_frdoc(row) = sd)

StandardizedCandidates(info_df, frdoc_number) ==
  RowsStandardizedAs(info_df, standardize_frdoc_number(frdoc_number))

\* As CitationCandidates without the comparison of end_page
CitationCandidatesNoEndPage(info_df, doc_info) ==
  SelectSeq(info_df, LAMBDA row :
       row.publication_date = doc_info.publication_date
    /\ row.volume = doc_info.volume
    /\ row.start_page = doc_info.start_page)

\* Search based on the publication date, volume and pages (FR citation)
CitationCandidates(info_df, doc_info) ==
  SelectSeq(info_df, LAMBDA row :
       row.publication_date = doc_info.publication_date
    /\ row.volume = doc_info.volume
    /\ row.start_page = doc_info.start_page
    /\ row.end_page = doc_info.end_page)

\* As SubstringCandidates keeping every candidate
SubstringCandidatesUnfiltered(candidates_df, doc_info) == candidates_df

\* Refine by seeing if frdoc is within frdoc_string (whitespace stripped)
SubstringCandidates(candidates_df, doc_info) ==
  SelectSeq(candidates_df, LAMBDA row :
    IsSubstring(NoSpace(row.frdoc_number), NoSpace(doc_info.frdoc_string)))

\* As IsUnique with the test len(candidates_df) >= 1 : the first of several
IsUniqueOrFirst(candidates_df) == Len(candidates_df) >= 1

\* len(candidates_df) == 1
IsUnique(candidates_df) == Len(candidates_df) = 1

\* As Cascade with the FR citation search tried before the exact search
CascadeCitationFirst(info_df, doc_info, frdoc_number, std_df, cit_df, sub_df) ==
  IF IsUnique(cit_df)
  THEN [ret |-> cit_df[1].frdoc_number, step |-> "citation"]
  ELSE IF HasFrdocString(doc_info) /\ frdoc_number \in all_frdocs(info_df)
  THEN [ret |-> frdoc_number, step |-> "exact"]
  ELSE IF HasFrdocString(doc_info) /\ IsUnique(std_df)
  THEN [ret |-> std_df[1].frdoc_number, step |-> "standardized"]
  ELSE IF HasFrdocString(doc_info) /\ IsUnique(sub_df)
  THEN [ret |-> sub_df[1].frdoc_number, step |-> "substring"]
  ELSE [ret |-> None, step |-> "unresolved"]

\* The cascade of __call__ on its intermediate values: frdoc_number is the
\* extracted number, std_df, cit_df and sub_df the candidates_df of the
\* standardized, the FR citation and the substring search.
Cascade(info_df, doc_info, frdoc_number, std_df, cit_df, sub_df) ==
  IF HasFrdocString(doc_info) /\ frdoc_number \in all_frdocs(info_df)
  THEN [ret |-> frdoc_number, step |-> "exact"]
  ELSE IF HasFrdocString(doc_info) /\ IsUnique(std_df)
  THEN [ret |-> std_df[1].frdoc_number, step |-> "standardized"]
  ELSE IF IsUnique(cit_df)
  THEN [ret |-> cit_df[1].frdoc_number, step |-> "citation"]
  ELSE IF HasFrdocString(doc_info) /\ IsUnique(sub_df)
  THEN [ret |-> sub_df[1].frdoc_number, step |-> "substring"]
  ELSE [ret |-> None, step |-> "unresolved"]

CascadeFrom(info_df, doc_info, frdoc_number, cit_df) ==
  Cascade(info_df, doc_info, frdoc_number,
          StandardizedCandidates(info_df, frdoc_number),
          cit_df, SubstringCandidates(cit_df, doc_info))

\* __call__: the id returned and the step that returned it
FrdocResolverCall(info_df, doc_info) ==
  CascadeFrom(info_df, doc_info,
              extract_frdoc_number(doc_info.frdoc_string),
              CitationCandidates(info_df, doc_info))

FrdocResolver(info_df, doc_info) == FrdocResolverCall(info_df, doc_info).ret

(***************************************************************************)
(* iter_docs: the citation string of a filing element.  An FRDOC element   *)
(* is the sequence of the texts its itertext() yields.                     *)
(***************************************************************************)
\* As FrdocStringOf taking the first FRDOC child when there are several
FrdocStringOfFirst(frdoc_elements) ==
  IF Len(frdoc_elements) = 0 THEN None
  ELSE StrJoin(frdoc_elements[1], <<" ">>)

\* doc['frdoc_string']: None unless the filing has exactly one FRDOC child
FrdocStringOf(frdoc_elements) ==
  IF Len(frdoc_elements) = 0 THEN None
  ELSE IF Len(frdoc_elements) > 1 THEN None
  ELSE StrJoin(frdoc_elements[1], <<" ">>)

(***************************************************************************)
(* lxml element trees.  A tree is the sequence of its elements in document *)
(* order; an element is a record of its tag, its nesting depth (the root   *)
(* has depth 0), its text and tail (None when absent) and its attributes   *)
(* SOURCE, TITLE and PART (None when absent).                              *)
(***************************************************************************)
TagP        == <<"P">>
TagAMDPAR   == <<"A", "M", "D", "P", "A", "R">>
TagHD       == <<"H", "D">>
TagEXTRACT  == <<"E", "X", "T", "R", "A", "C", "T">>
TagGPOTABLE == <<"G", "P", "O", "T", "A", "B", "L", "E">>
TagSECTION  == <<"S", "E", "C", "T", "I", "O", "N">>
TagPART     == <<"P", "A", "R", "T">>
TagREGTEXT  == <<"R", "E", "G", "T", "E", "X", "T">>
TagPREAMB   == <<"P", "R", "E", "A", "M", "B">>
TagCFR      == <<"C", "F", "R">>
TagLSTSUB   == <<"L", "S", "T", "S", "U", "B">>
TagSECTNO   == <<"S", "E", "C", "T", "N", "O">>
TagSUBJECT  == <<"S", "U", "B", "J", "E", "C", "T">>
TagFTNT     == <<"F", "T", "N", "T">>
TagSU       == <<"S", "U">>
TagE        == <<"E">>
TagRULE     == <<"R", "U", "L", "E">>
TagSUBPART  == <<"S", "U", "B", "P", "A", "R", "T">>

\* '\n'
NL == <<"\n">>

\* the element that is not there: what get_ancestor returns as None
NoElement == 0

\* the integers a..b in order
Range(a, b) == [k \in 1..(b - a + 1) |-> a + k - 1]

\* the first element of seq, or default when seq is empty
FirstOr(seq, default) == IF seq = <<>> THEN default ELSE seq[1]

\* seq[:1]
FirstOnly(seq) == IF seq = <<>> THEN <<>> ELSE <<seq[1]>>

\* the last element of seq, or default when seq is empty
LastOr(seq, default) == IF seq = <<>> THEN default ELSE seq[Len(seq)]

\* the position of x in seq
PositionIn(seq, x) == CHOOSE p \in 1..Len(seq) : seq[p] = x

\* the index of the last descendant of element i, scanning from k
RECURSIVE SubtreeEndFrom(_, _, _)
SubtreeEndFrom(tree, i, k) ==
  IF k > Len(tree) THEN k - 1
  ELSE IF tree[k].depth <= tree[i].depth THEN k - 1
       ELSE SubtreeEndFrom(tree, i, k + 1)

\* element.iterdescendants(), in document order
iterdescendants(tree, i) == Range(i + 1, SubtreeEndFrom(tree, i, i + 1))

\* element.getchildren()
getchildren(tree, i) ==
  SelectSeq(iterdescendants(tree, i), LAMBDA k : tree[k].depth = tree[i].depth + 1)

\* element.getparent()
getparent(tree, i) ==
  IF tree[i].depth = 0 THEN NoElement
  ELSE CHOOSE k \in 1..(i - 1) :
         /\ tree[k].depth = tree[i].depth - 1
         /\ \A j \in (k + 1)..(i - 1) : tree[j].depth >= tree[i].depth

\* element.iterancestors(): the parent first
RECURSIVE iterancestors(_, _)
iterancestors(tree, i) ==
  IF tree[i].depth = 0 THEN <<>>
  ELSE <<getparent(tree, i)>> \o iterancestors(tree, getparent(tree, i))

get_ancestor(tree, i, tag) ==
  FirstOr(SelectSeq(iterancestors(tree, i), LAMBDA a : tree[a].tag = tag), NoElement)

\* element.xpath('.//TAG'): the descendants with the tag, in document order
XpathDescendants(tree, i, tag) ==
  SelectSeq(iterdescendants(tree, i), LAMBDA k : tree[k].tag = tag)

\* element.xpath('./TAG'): the children with the tag
XpathChildren(tree, i, tag) ==
  SelectSeq(getchildren(tree, i), LAMBDA k : tree[k].tag = tag)

\* the tails of the elements kids that are text nodes
RECURSIVE TailNodes(_, _, _)
TailNodes(tree, kids, j) ==
  IF j > Len(kids) THEN <<>>
  ELSE (IF tree[kids[j]].tail \in {None, <<>>} THEN <<>> ELSE <<tree[kids[j]].tail>>)
       \o TailNodes(tree, kids, j + 1)

\* element.xpath('./text()'): the text nodes that are children of element i
XpathText(tree, i) ==
  (IF tree[i].text \in {None, <<>>} THEN <<>> ELSE <<tree[i].text>>)
  \o TailNodes(tree, getchildren(tree, i), 1)

\* xpath('<elems>/text()'): the text nodes of each of the elements, in order
RECURSIVE XpathTextOf(_, _, _)
XpathTextOf(tree, elems, j) ==
  IF j > Len(elems) THEN <<>>
  ELSE XpathText(tree, elems[j]) \o XpathTextOf(tree, elems, j + 1)

DigitText == <<"0", "1", "2", "3", "4", "5", "6", "7", "8", "9">>

\* str(n) for n >= 0
RECURSIVE IntToText(_)
IntToText(n) ==
  IF n < 10 THEN <<DigitText[n + 1]>>
  ELSE IntToText(n \div 10) \o <<DigitText[(n % 10) + 1]>>

\* the siblings of element i that have its tag, itself included
SameTagSiblings(tree, i) ==
  XpathChildren(tree, getparent(tree, i), tree[i].tag)

\* one step of tree.getpath: the tag, indexed when siblings share it
PathStep(tree, i) ==
  IF tree[i].depth = 0 THEN tree[i].tag
  ELSE IF Len(SameTagSiblings(tree, i)) = 1 THEN tree[i].tag
       ELSE tree[i].tag \o <<"[">>
            \o IntToText(PositionIn(SameTagSiblings(tree, i), i)) \o <<"]">>

\* tree.getpath(element)
RECURSIVE getpath(_, _)
getpath(tree, i) ==
  (IF tree[i].depth = 0 THEN <<>> ELSE getpath(tree, getparent(tree, i)))
  \o <<"/">> \o PathStep(tree, i)

\* ''.join(element.itertext()): the text, then each child's itertext and tail
RECURSIVE itertext(_, _)
RECURSIVE ChildItertext(_, _, _)
ChildItertext(tree, kids, j) ==
  IF j > Len(kids) THEN <<>>
  ELSE itertext(tree, kids[j])
       \o (IF tree[kids[j]].tail = None THEN <<>> ELSE tree[kids[j]].tail)
       \o ChildItertext(tree, kids, j + 1)

itertext(tree, i) ==
  (IF tree[i].text = None THEN <<>> ELSE tree[i].text)
  \o ChildItertext(tree, getchildren(tree, i), 1)

(***************************************************************************)
(* get_element_text                                                        *)
(***************************************************************************)
\* \n\s*
FormattingPattern == ReSeqOf(<<ReChr("\n"), ReStar(ReSpace)>>)

\* re.match(r'\n\s*', s)
IsFormatting(s) == ReMatch(FormattingPattern, {}, s).ok

\* head: element.text or '', '' for a footnote number and for formatting whitespace
ElementHead(e) ==
  IF e.text = None THEN <<>>
  ELSE IF e.tag = TagSU THEN <<>>
       ELSE IF IsFormatting(e.text) THEN <<>> ELSE e.text

\* tail: re.match raises TypeError on a tail that is None
ElementTail(e) ==
  IF e.tail = None THEN TypeError
  ELSE IF IsFormatting(e.tail) THEN <<>> ELSE e.tail

\* ''.join of two pieces, TypeError when computing one of them raised
JoinOrRaise(a, b) == IF a = TypeError \/ b = TypeError THEN TypeError ELSE a \o b

RECURSIVE get_element_text(_, _)
RECURSIVE ChildTexts(_, _, _)
ChildTexts(tree, kids, j) ==
  IF j > Len(kids) THEN <<>>
  ELSE JoinOrRaise(get_element_text(tree, kids[j]), ChildTexts(tree, kids, j + 1))

get_element_text(tree, i) ==
  JoinOrRaise(ElementHead(tree[i]),
              JoinOrRaise(ChildTexts(tree, getchildren(tree, i), 1),
                          ElementTail(tree[i])))

\* get_element_text raises on one of the elements elems
TextRaises(tree, elems) ==
  \E j \in 1..Len(elems) : get_element_text(tree, elems[j]) = TypeError

(***************************************************************************)
(* update_header                                                           *)
(***************************************************************************)
\* element.get('SOURCE','HED')
LevelString(e) == IF e.SOURCE = None THEN <<"H", "E", "D">> ELSE e.SOURCE

\* level_string[-1].replace('D','0')
LevelDigit(ls) == IF ls[Len(ls)] = "D" THEN "0" ELSE ls[Len(ls)]

\* int(level_string[-1].replace('D','0')) raises: IndexError on '', ValueError
\* on a character that is no digit
LevelRaises(ls) == ls = <<>> \/ LevelDigit(ls) \notin Digits

\* new_level
NewLevel(ls) == (CHOOSE n \in 0..9 : DigitText[n + 1] = LevelDigit(ls)) + 1

\* header += [''] * (new_level - len(header)); header[-1] = header_text
PadHeader(header, new_level, header_text) ==
  [k \in 1..(IF new_level > Len(header) THEN new_level ELSE Len(header)) |->
     IF k = (IF new_level > Len(header) THEN new_level ELSE Len(header))
     THEN header_text
     ELSE IF k <= Len(header) THEN header[k] ELSE <<>>]

\* As SetHeader without the branch that cuts the deeper entries off
SetHeaderNoTruncate(header, new_level, header_text) ==
  PadHeader(header, new_level, header_text)

\* the branches of update_header once the level is known
SetHeader(header, new_level, header_text) ==
  IF new_level < Len(header)
  THEN SubSeq(header, 1, new_level - 1) \o <<header_text>>
  ELSE PadHeader(header, new_level, header_text)

update_header(header, tree, i) ==
  SetHeader(header, NewLevel(LevelString(tree[i])), itertext(tree, i))

(***************************************************************************)
(* parse_cfr_string and the CFR maps                                       *)
(***************************************************************************)
\* np.nan
NaN == <<"nan">>

\* s.split(): the maximal runs of characters that are not whitespace
RECURSIVE SplitWsFrom(_, _, _)
SplitWsFrom(s, k, cur) ==
  IF k > Len(s) THEN (IF cur = <<>> THEN <<>> ELSE <<cur>>)
  ELSE IF s[k] \in Space
       THEN (IF cur = <<>> THEN <<>> ELSE <<cur>>) \o SplitWsFrom(s, k + 1, <<>>)
       ELSE SplitWsFrom(s, k + 1, Append(cur, s[k]))

StrSplitWs(s) == SplitWsFrom(s, 1, <<>>)

\* m.captures(name): every capture of the group, in order
Captures(m, name, s) ==
  [j \in 1..Len(m.c[name]) |-> Slice(s, m.c[name][j][1], m.c[name][j][2])]

\* CFR(.*?(?P<part>(_|\d+|\b[IVXCL]+\b)))+   with re.IGNORECASE
CfrPattern ==
  ReSeqOf(<< ReSet({"C", "c"}), ReSet({"F", "f"}), ReSet({"R", "r"}),
             RePlus(ReSeqOf(<<
               ReLazy(ReAny, 0, ReInf),
               ReGrp("part", ReAlt(<<
                 ReChr("_"),
                 RePlus(ReDigit),
                 ReSeqOf(<<ReWordB,
                           RePlus(ReSet({"I", "V", "X", "C", "L", "i", "v", "x", "c", "l"})),
                           ReWordB>>) >>)) >>)) >>)

\* "for part in ...captures('part'): yield (title,part)"
CfrsOfCaptures(title, parts) == [j \in 1..Len(parts) |-> <<title, parts[j]>>]

\* the body of the try once re.search gave m; None.captures raises
CfrsOfMatch(s, m) ==
  IF ~m.ok THEN << <<NaN, NaN>> >>
  ELSE CfrsOfCaptures(StrSplitWs(s)[1], Captures(m, "part", s))

\* list(parse_cfr_string(s)); s.split()[0] raises IndexError on a blank s
parse_cfr_string(s) ==
  IF StrSplitWs(s) = <<>> THEN << <<NaN, NaN>> >>
  ELSE CfrsOfMatch(s, ReSearch(CfrPattern, {"part"}, s))

\* [cfr for e in elems for cfr in parse_cfr_string(get_element_text(e))],
\* when get_element_text raises on none of them
RECURSIVE CfrsOf(_, _, _)
CfrsOf(tree, elems, j) ==
  IF j > Len(elems) THEN <<>>
  ELSE parse_cfr_string(get_element_text(tree, elems[j])) \o CfrsOf(tree, elems, j + 1)

\* root.xpath('.//PART')
PartElements(tree) == XpathDescendants(tree, 1, TagPART)

\* root.xpath('.//LSTSUB')
LstsubElements(tree) == XpathDescendants(tree, 1, TagLSTSUB)

\* root.xpath('.//PREAMB/CFR')
PreambCfrElements(tree) ==
  SelectSeq(XpathDescendants(tree, 1, TagCFR),
            LAMBDA k : getparent(tree, k) # 1 /\ tree[getparent(tree, k)].tag = TagPREAMB)

\* build_lstsub_cfr_map's loop over './/LSTSUB|.//PART': the LSTSUB that
\* comes last before part element p, NoElement when there is none
LstsubOf(tree, p) ==
  LastOr(SelectSeq(LstsubElements(tree), LAMBDA l : l < p), NoElement)

\* lstsub_map[l]
LstsubParts(tree, l) ==
  SelectSeq(PartElements(tree), LAMBDA p : LstsubOf(tree, p) = l)

\* cfrs of one LSTSUB
LstsubCfrs(tree, l) == CfrsOf(tree, XpathChildren(tree, l, TagCFR), 1)

LstsubRaises(tree) ==
  \E j \in 1..Len(LstsubElements(tree)) :
    TextRaises(tree, XpathChildren(tree, LstsubElements(tree)[j], TagCFR))

\* the part elements build_lstsub_cfr_map gives a CFR to
LstsubMapped(tree) ==
  {p \in {PartElements(tree)[j] : j \in 1..Len(PartElements(tree))} :
     /\ LstsubOf(tree, p) # NoElement
     /\ Len(LstsubCfrs(tree, LstsubOf(tree, p))) = Len(LstsubParts(tree, LstsubOf(tree, p)))}

build_lstsub_cfr_map(tree) ==
  [p \in LstsubMapped(tree) |->
     LstsubCfrs(tree, LstsubOf(tree, p))[PositionIn(LstsubParts(tree, LstsubOf(tree, p)), p)]]

\* part\s+(\d+|_)   with re.IGNORECASE
PartHeaderPattern ==
  ReSeqOf(<< ReSet({"P", "p"}), ReSet({"A", "a"}), ReSet({"R", "r"}), ReSet({"T", "t"}),
             RePlus(ReSpace),
             ReGrp("1", ReAlt(<<RePlus(ReDigit), ReChr("_")>>)) >>)

\* part_element.xpath('descendant::HD[1]')
FirstHeader(tree, p) == FirstOnly(XpathDescendants(tree, p, TagHD))

\* the matches of the part pattern in the part's first header
PartHeaderMatches(tree, p) ==
  IF FirstHeader(tree, p) = <<>> THEN <<>>
  ELSE ReFindIter(PartHeaderPattern, {"1"}, get_element_text(tree, FirstHeader(tree, p)[1]), 1, 0)

HeaderRaises(tree) ==
  \E j \in 1..Len(PartElements(tree)) :
    TextRaises(tree, FirstHeader(tree, PartElements(tree)[j]))

\* m[1] of the last match
LastPartOf(ms, s) == Group(ms[Len(ms)], "1", s)

build_header_part_map(tree) ==
  [p \in {q \in {PartElements(tree)[j] : j \in 1..Len(PartElements(tree))} :
            PartHeaderMatches(tree, q) # <<>>} |->
     LastPartOf(PartHeaderMatches(tree, p), get_element_text(tree, FirstHeader(tree, p)[1]))]

\* set(cfr[0] for cfr in doc_cfrs if cfr[1] == part)
PotentialTitles(doc_cfrs, part) ==
  {doc_cfrs[j][1] : j \in {k \in 1..Len(doc_cfrs) : doc_cfrs[k][2] = part}}

\* As InferTitle taking some title when several are candidates
InferTitleAny(doc_cfrs, part) ==
  IF part = <<"_">> THEN <<"_">>
  ELSE IF PotentialTitles(doc_cfrs, part) # {}
       THEN CHOOSE t \in PotentialTitles(doc_cfrs, part) : TRUE
       ELSE NaN

\* the title inferred for a part number read from the header
InferTitle(doc_cfrs, part) ==
  IF part = <<"_">> THEN <<"_">>
  ELSE IF Cardinality(PotentialTitles(doc_cfrs, part)) = 1
       THEN CHOOSE t \in PotentialTitles(doc_cfrs, part) : TRUE
       ELSE NaN

\* As InferCfr with the part number of the header tried before the List of
\* Subjects
InferCfrHeaderFirst(e, doc_cfrs, lstsub_cfr_map, header_part_map) ==
  IF e \in DOMAIN header_part_map
  THEN <<InferTitle(doc_cfrs, header_part_map[e]), header_part_map[e]>>
  ELSE IF e \in DOMAIN lstsub_cfr_map THEN lstsub_cfr_map[e]
       ELSE <<NaN, NaN>>

\* "Multiple sections case": the CFR of part element e
InferCfr(e, doc_cfrs, lstsub_cfr_map, header_part_map) ==
  IF e \in DOMAIN lstsub_cfr_map THEN lstsub_cfr_map[e]
  ELSE IF e \in DOMAIN header_part_map
       THEN <<InferTitle(doc_cfrs, header_part_map[e]), header_part_map[e]>>
       ELSE <<NaN, NaN>>

\* As TrivialMap, the part element left without its CFR
TrivialMapNaN(part_elements, doc_cfrs) == (part_elements[1] :> <<NaN, NaN>>)

\* "Trivial case with one CFR part and no ambiguity"
TrivialMap(part_elements, doc_cfrs) == (part_elements[1] :> doc_cfrs[1])

\* doc_cfrs
DocCfrs(tree) == CfrsOf(tree, PreambCfrElements(tree), 1)

\* the branches of build_part_cfr_map once doc_cfrs and part_elements are known
PartCfrMapOf(tree, doc_cfrs, part_elements) ==
  IF doc_cfrs = <<>> /\ part_elements = <<>> THEN <<>>
  ELSE IF Len(doc_cfrs) = 1 /\ Len(part_elements) = 1
       THEN TrivialMap(part_elements, doc_cfrs)
       ELSE [e \in {part_elements[j] : j \in 1..Len(part_elements)} |->
               InferCfr(e, doc_cfrs, build_lstsub_cfr_map(tree), build_header_part_map(tree))]

\* build_part_cfr_map raises: get_element_text raised on a CFR or a header
PartCfrMapRaises(tree) ==
  \/ TextRaises(tree, PreambCfrElements(tree))
  \/ /\ ~(Len(DocCfrs(tree)) = 1 /\ Len(PartElements(tree)) = 1)
     /\ ~(DocCfrs(tree) = <<>> /\ PartElements(tree) = <<>>)
     /\ (LstsubRaises(tree) \/ HeaderRaises(tree))

build_part_cfr_map(tree) == PartCfrMapOf(tree, DocCfrs(tree), PartElements(tree))

(***************************************************************************)
(* split_numbering                                                         *)
(***************************************************************************)
\* \s*?((\(\s*(\d+|[A-Z]{1,3}|[a-z]{1,3})\s*\))\s*)+
BracketedPattern ==
  ReSeqOf(<< ReLazy(ReSpace, 0, ReInf),
             RePlus(ReSeqOf(<<
               ReChr("("), ReStar(ReSpace),
               ReAlt(<<RePlus(ReDigit), ReRepOf(ReSet(Upper), 1, 3), ReRepOf(ReSet(Lower), 1, 3)>>),
               ReStar(ReSpace), ReChr(")"),
               ReStar(ReSpace) >>)) >>)

\* \s*((\d+|[A-Z]+)\.)\s
DottedPattern ==
  ReSeqOf(<< ReStar(ReSpace),
             ReAlt(<<RePlus(ReDigit), RePlus(ReSet(Upper))>>), ReChr("."),
             ReSpace >>)

\* As NumberAndRest with the whitespace taken out of the numbering
NumberAndRestStripped(m, s) ==
  <<SelectSeq(Group0(m, s), LAMBDA c : c \notin Space), Slice(s, m.end, Len(s) + 1)>>

\* "number = m.group(0); s = s[len(m.group(0)):]; return number,s"
NumberAndRest(m, s) == <<Group0(m, s), Slice(s, m.end, Len(s) + 1)>>

\* the dotted case, tried when the bracketed one did not match
SplitDotted(dotted, s) == IF dotted.ok THEN NumberAndRest(dotted, s) ELSE <<NaN, s>>

\* the bracketed case
SplitBracketed(bracketed, s) ==
  IF bracketed.ok THEN NumberAndRest(bracketed, s)
  ELSE SplitDotted(ReMatch(DottedPattern, {}, s), s)

\* "if type(s) is str": anything else comes back with nan
split_numbering(s) ==
  IF s = None THEN <<NaN, s>> ELSE SplitBracketed(ReMatch(BracketedPattern, {}, s), s)

(***************************************************************************)
(* parse_reg_xml_tree: what one element of root.iter() contributes         *)
(***************************************************************************)
ParagraphTags == {TagP, TagAMDPAR, TagHD, TagEXTRACT, TagGPOTABLE, TagSECTION}

\* the int 0 that stands for a footnote without a number
IntZero == <<"int 0">>

\* (SECTION|AMDPAR|EXTRACT|SUBPART)
LegalMarkerPattern ==
  ReAlt(<<ReLit(TagSECTION), ReLit(TagAMDPAR), ReLit(TagEXTRACT), ReLit(TagSUBPART)>>)

\* re.search(r'(SECTION|AMDPAR|EXTRACT|SUBPART)', xml_path)
HasLegalMarker(xml_path) == ReSearch(LegalMarkerPattern, {}, xml_path).ok

\* the element is attributed through its part element, not through a REGTEXT
ThroughPart(tree, i, part_element) ==
  /\ get_ancestor(tree, i, TagREGTEXT) = NoElement
  /\ part_element # NoElement
  /\ HasLegalMarker(getpath(tree, i))

\* part_cfr_map[part_element] raises KeyError
CfrKeyError(tree, i, part_element, part_cfr_map) ==
  ThroughPart(tree, i, part_element) /\ part_element \notin DOMAIN part_cfr_map

\* As Legal with the part element looked for among the ancestors of the
\* element, not taken from the walk
LegalByAncestry(tree, i, part_element) ==
  \/ get_ancestor(tree, i, TagREGTEXT) # NoElement
  \/ get_ancestor(tree, i, TagPART) # NoElement /\ HasLegalMarker(getpath(tree, i))

\* paragraph['legal']
Legal(tree, i, part_element) ==
  get_ancestor(tree, i, TagREGTEXT) # NoElement \/ ThroughPart(tree, i, part_element)

\* (paragraph['cfr_title'], paragraph['cfr_part']); a key never set is NaN in
\* the data frame
CfrOf(tree, i, part_element, part_cfr_map) ==
  IF get_ancestor(tree, i, TagREGTEXT) # NoElement
  THEN <<tree[get_ancestor(tree, i, TagREGTEXT)].TITLE,
         tree[get_ancestor(tree, i, TagREGTEXT)].PART>>
  ELSE IF ThroughPart(tree, i, part_element) THEN part_cfr_map[part_element]
       ELSE <<NaN, NaN>>

\* xpath(...)[0].split()[1], NaN when that raises
SecondWordOfFirst(nodes) ==
  IF nodes = <<>> THEN NaN
  ELSE IF Len(StrSplitWs(nodes[1])) < 2 THEN NaN ELSE StrSplitWs(nodes[1])[2]

\* paragraph['cfr_section']
CfrSection(tree, section_element) ==
  IF section_element = NoElement THEN NaN
  ELSE SecondWordOfFirst(
         XpathTextOf(tree, XpathChildren(tree, section_element, TagSECTNO), 1))

\* paragraph['section_subject']
SectionSubject(tree, section_element) ==
  IF section_element = NoElement THEN NaN
  ELSE FirstOr(XpathTextOf(tree, XpathDescendants(tree, section_element, TagSUBJECT), 1), NaN)

\* paragraph['footnote']
Footnote(tree, ftnt_element) ==
  IF ftnt_element = NoElement THEN NaN
  ELSE FirstOr(XpathTextOf(tree, XpathDescendants(tree, ftnt_element, TagSU), 1), IntZero)

\* paragraph['footnotes']
Footnotes(tree, i, ftnt_element) ==
  IF ftnt_element # NoElement THEN NaN
  ELSE XpathTextOf(tree, XpathChildren(tree, i, TagSU), 1)

\* the paragraph dict of element i before its text is set
Paragraph(tree, i, header, part_element, part_cfr_map) ==
  [xml_path        |-> getpath(tree, i),
   header          |-> header,
   legal           |-> Legal(tree, i, part_element),
   tag             |-> tree[i].tag,
   cfr_title       |-> CfrOf(tree, i, part_element, part_cfr_map)[1],
   cfr_part        |-> CfrOf(tree, i, part_element, part_cfr_map)[2],
   cfr_section     |-> CfrSection(tree, get_ancestor(tree, i, TagSECTION)),
   section_subject |-> SectionSubject(tree, get_ancestor(tree, i, TagSECTION)),
   footnote        |-> Footnote(tree, get_ancestor(tree, i, TagFTNT)),
   footnotes       |-> Footnotes(tree, i, get_ancestor(tree, i, TagFTNT))]

\* As SplitPattern without the alternative for a line that is only a newline
SplitPatternNoBlankLine ==
  ReSeqOf(<< ReSeqOf(<<RePlus(ReAny), ReOpt(ReChr("\n"))>>),
             ReOpt(RePlus(ReSet(Space \ {"\n"}))) >>)

\* (\n|.+\n?)([^\S\n]+)?
SplitPattern ==
  ReSeqOf(<< ReAlt(<<ReChr("\n"), ReSeqOf(<<RePlus(ReAny), ReOpt(ReChr("\n"))>>)>>),
             ReOpt(RePlus(ReSet(Space \ {"\n"}))) >>)

\* par_texts
ParTexts(text, split_paragraphs) ==
  IF split_paragraphs /\ text # <<>> THEN ReFindAll(SplitPattern, text) ELSE <<text>>

\* \s*.*\n?\s*   (the pattern of parse/parsers.py)
SplitPatternParsers ==
  ReSeqOf(<<ReStar(ReSpace), ReStar(ReAny), ReOpt(ReChr("\n")), ReStar(ReSpace)>>)

\* par_texts of parse/parsers.py with split_paragraphs
ParTextsParsers(text) == ReFindAll(SplitPatternParsers, text)

\* the copy of the paragraph dict appended for one par_text
Record(paragraph, par_text, extract_numbering) ==
  [xml_path        |-> paragraph.xml_path,
   header          |-> paragraph.header,
   legal           |-> paragraph.legal,
   tag             |-> paragraph.tag,
   cfr_title       |-> paragraph.cfr_title,
   cfr_part        |-> paragraph.cfr_part,
   cfr_section     |-> paragraph.cfr_section,
   section_subject |-> paragraph.section_subject,
   footnote        |-> paragraph.footnote,
   footnotes       |-> paragraph.footnotes,
   section         |-> NaN,
   numbering       |-> IF extract_numbering THEN split_numbering(par_text)[1] ELSE NaN,
   text            |-> IF extract_numbering THEN split_numbering(par_text)[2] ELSE par_text]

\* As RecordsOf with the units of the element taken last first
RecordsOfReversed(paragraph, par_texts, extract_numbering) ==
  [j \in 1..Len(par_texts) |->
     Record(paragraph, par_texts[Len(par_texts) + 1 - j], extract_numbering)]

\* "for par_text in par_texts": the records of one element
RecordsOf(paragraph, par_texts, extract_numbering) ==
  [j \in 1..Len(par_texts) |-> Record(paragraph, par_texts[j], extract_numbering)]

\* part_element after element i is seen
NextPartElement(tree, i, part_element) ==
  IF tree[i].tag = TagPART THEN i ELSE part_element

\* the loop body raises on element i
ElementRaises(tree, i, part_element, part_cfr_map) ==
  \/ tree[i].tag = TagHD /\ LevelRaises(LevelString(tree[i]))
  \/ /\ tree[i].tag \in ParagraphTags
     /\ \/ get_element_text(tree, i) = TypeError
        \/ CfrKeyError(tree, i, part_element, part_cfr_map)

\* header after element i is seen
NextHeader(tree, i, header) ==
  IF tree[i].tag = TagHD THEN update_header(header, tree, i) ELSE header

\* the records appended for element i
ElementRecords(tree, i, header, part_element, part_cfr_map, split_paragraphs, extract_numbering) ==
  IF tree[i].tag \notin ParagraphTags THEN <<>>
  ELSE RecordsOf(Paragraph(tree, i, header, part_element, part_cfr_map),
                 ParTexts(get_element_text(tree, i), split_paragraphs),
                 extract_numbering)

\* ''.join(df['text'])
RECURSIVE JoinTexts(_, _)
JoinTexts(df, k) ==
  IF k > Len(df) THEN <<>> ELSE df[k].text \o JoinTexts(df, k + 1)

(***************************************************************************)
(* The HTML parser: line_code, split_tables, tag_html_paragraph,           *)
(* parse_footnotes and extract_html_paragraphs                             *)
(***************************************************************************)
\* the section sign, one character of the text
SectionSign == "§"

\* s.strip()
RECURSIVE StrLStrip(_)
StrLStrip(s) == IF s # <<>> /\ s[1] \in Space THEN StrLStrip(Tail(s)) ELSE s

RECURSIVE StrRStrip(_)
StrRStrip(s) ==
  IF s # <<>> /\ s[Len(s)] \in Space THEN StrRStrip(SubSeq(s, 1, Len(s) - 1)) ELSE s

StrStrip(s) == StrRStrip(StrLStrip(s))

\* the number of characters of line that are in the set cs
CountIn(line, cs) == Cardinality({k \in 1..Len(line) : line[k] \in cs})

\* s.startswith(prefix)
StartsWith(s, prefix) == Len(s) >= Len(prefix) /\ SubSeq(s, 1, Len(prefix)) = prefix

line_code(line) ==
  IF StrStrip(line) = <<>> THEN " "
  ELSE IF CountIn(line, {"-"}) = Len(line) THEN "-"
  ELSE IF StartsWith(line, <<" ", " ", " ", " ", " ">>) THEN "c"
  ELSE IF 2 * CountIn(line, {"*"}) >= Len(line) THEN "*"
  ELSE IF 2 * (CountIn(line, Lower \cup Upper) + CountIn(line, {"*"})) > Len(line) THEN "a"
  ELSE "."

\* ''.join(map(line_code,lines))
LineCodes(lines) == [k \in 1..Len(lines) |-> line_code(lines[k])]

\* As TablePattern without the character in front of the first rule
TablePatternFromRule ==
  ReRepOf(ReSeqOf(<<ReChr("-"), ReStar(ReSet({" ", "c", "."}))>>), 2, ReInf)

\* .(-[ c\.]*){2,}
TablePattern ==
  ReSeqOf(<< ReAny,
             ReRepOf(ReSeqOf(<<ReChr("-"), ReStar(ReSet({" ", "c", "."}))>>), 2, ReInf) >>)

\* '\n'.join(lines[a:b]), a and b as the 1-based positions of a match
JoinLines(lines, a, b) == StrJoin(Slice(lines, a, b), NL)

\* the (pre_table, table) pairs of the loop over table_matches
TablePairs(lines, ms) ==
  [k \in 1..Len(ms) |->
     <<JoinLines(lines, 1, ms[k].start), JoinLines(lines, ms[k].start, ms[k].end)>>]

\* "if table_match.end() < len(lines)": what follows the last table
AfterLastTable(lines, ms) ==
  IF ms[Len(ms)].end <= Len(lines)
  THEN << <<JoinLines(lines, ms[Len(ms)].end, Len(lines) + 1), <<>>>> >>
  ELSE <<>>

\* list(split_tables(text)) once the lines and the matches are known
SplitTablesOf(text, lines, ms) ==
  IF ms = <<>> THEN << <<text, <<>>>> >>
  ELSE TablePairs(lines, ms) \o AfterLastTable(lines, ms)

split_tables(text) ==
  SplitTablesOf(text, StrSplit(text, "\n"),
                ReFindIter(TablePattern, {}, LineCodes(StrSplit(text, "\n")), 1, 0))

\* \d\n\S
AmdparPattern == ReSeqOf(<<ReDigit, ReChr("\n"), ReNot(Space)>>)

\* §\s+\d
SectionPattern == ReSeqOf(<<ReChr(SectionSign), RePlus(ReSpace), ReDigit>>)

\* \*+\s*
StarsPattern == ReSeqOf(<<RePlus(ReChr("*")), ReStar(ReSpace)>>)

\* '\n' in s.strip()
HasInnerNewline(s) == \E k \in 1..Len(StrStrip(s)) : StrStrip(s)[k] = "\n"

\* tag_html_paragraph: None when no branch returns
tag_html_paragraph(s) ==
  IF StartsWith(s, <<"<", "P", ">">>) THEN TagP
  ELSE IF ReMatch(AmdparPattern, {}, s).ok THEN TagAMDPAR
  ELSE IF ReMatch(SectionPattern, {}, s).ok THEN TagSECTION
  ELSE IF ReMatch(StarsPattern, {}, s).ok THEN <<"S", "T", "A", "R", "S">>
  ELSE IF ReMatch(ReNot(Space), {}, s).ok
       THEN (IF HasInnerNewline(s) THEN TagEXTRACT ELSE TagHD)
       ELSE None

\* (?<!\d\s*)\\(?P<i>\d+)\\
footnote_pattern ==
  ReSeqOf(<< ReNotBehind(ReSeqOf(<<ReDigit, ReStar(ReSpace)>>)),
             ReChr("\\"), ReGrp("i", RePlus(ReDigit)), ReChr("\\") >>)

\* [m.group('i') for m in ms]
GroupsI(ms, s) == [k \in 1..Len(ms) |-> Group(ms[k], "i", s)]

\* parse_footnotes once re.match gave m
FootnotesOf(m, s) ==
  [footnote  |-> IF m.ok THEN Group(m, "i", s) ELSE NaN,
   footnotes |-> IF m.ok THEN <<>>
                 ELSE GroupsI(ReFindIter(footnote_pattern, {"i"}, s, 1, 0), s),
   s         |-> ReSubFrom(ReFindIter(footnote_pattern, {"i"}, s, 1, 0), 1, <<>>, s, 1)]

parse_footnotes(s) == FootnotesOf(ReMatch(footnote_pattern, {"i"}, s), s)

\* (?<=\n) {4}(?!\s)
TabPattern ==
  ReSeqOf(<< ReBehind(ReChr("\n")), ReRepOf(ReChr(" "), 4, 4), ReNotAhead(ReSpace) >>)

\* "Mark paragraphs indicated by leading tabs (4 spaces)"
MarkParagraphs(text) == ReSub(TabPattern, <<" ", " ", " ", " ", "<", "P", ">">>, text)

\* .+?[^\n]($|\n{2}\s*|(?=<P>))   with re.DOTALL
ParagraphPattern ==
  ReSeqOf(<< ReLazy(ReNot({}), 1, ReInf), ReNot({"\n"}),
             ReAlt(<< ReEnd,
                      ReSeqOf(<<ReRepOf(ReChr("\n"), 2, 2), ReStar(ReSpace)>>),
                      ReAhead(ReLit(<<"<", "P", ">">>)) >>) >>)

\* ^-{5,}\s*$
DashedLinePattern == ReSeqOf(<<ReRepOf(ReChr("-"), 5, ReInf), ReStar(ReSpace), ReEnd>>)

\* \n-{5,}\n
InnerDashedPattern == ReSeqOf(<<ReChr("\n"), ReRepOf(ReChr("-"), 5, ReInf), ReChr("\n")>>)

\* "Drop dashed lines"
DropDashed(s) == ReSub(InnerDashedPattern, NL, s)

\* (Part\s\d+|Subpart|§|Appendix)   with re.IGNORECASE
ReLitI(s) == ReSeqOf([k \in 1..Len(s) |-> ReSet({s[k], UpperChar(s[k])})])

LegalHeaderPattern ==
  ReAlt(<< ReSeqOf(<<ReLitI(<<"p", "a", "r", "t">>), ReSpace, ReDigit>>),
           ReLitI(<<"s", "u", "b", "p", "a", "r", "t">>), ReChr(SectionSign), ReLitI(<<"a", "p", "p", "e", "n", "d", "i", "x">>) >>)

\* the text of the record: the mark, the amendment indicator or nothing trimmed
TrimTagged(tag, s) ==
  IF tag = TagP THEN parse_footnotes(Slice(s, 4, Len(s) + 1)).s
  ELSE IF tag = TagAMDPAR THEN Slice(s, 3, Len(s) + 1)
  ELSE s

\* header after a paragraph tagged tag
HeaderAfter(tag, s, header) ==
  IF tag = TagHD \/ tag = TagSECTION THEN StrStrip(s) ELSE header

\* legal_header after a paragraph tagged tag
LegalHeaderAfter(tag, s, legal_header) ==
  IF tag = TagHD THEN ReMatch(LegalHeaderPattern, {}, StrStrip(s)).ok
  ELSE IF tag = TagSECTION THEN TRUE
  ELSE legal_header

\* paragraph_info for the paragraph s (dashed lines dropped) tagged tag
ParagraphInfo(tag, s, header, legal_header, extract_numbering) ==
  [tag       |-> tag,
   text      |-> IF extract_numbering THEN split_numbering(TrimTagged(tag, s))[2]
                 ELSE TrimTagged(tag, s),
   footnote  |-> IF tag = TagP THEN parse_footnotes(Slice(s, 4, Len(s) + 1)).footnote ELSE NaN,
   footnotes |-> IF tag = TagP THEN parse_footnotes(Slice(s, 4, Len(s) + 1)).footnotes ELSE <<>>,
   header    |-> HeaderAfter(tag, s, header),
   legal     |-> LegalHeaderAfter(tag, s, legal_header)
                 \/ tag \in {TagAMDPAR, TagSECTION, <<"S", "T", "A", "R", "S">>},
   numbering |-> IF extract_numbering THEN split_numbering(TrimTagged(tag, s))[1] ELSE NaN]

\* the loop's state st = [header, legal_header, legal, records] after a
\* paragraph that is yielded
YieldParagraph(tag, s, st, extract_numbering) ==
  [header       |-> HeaderAfter(tag, s, st.header),
   legal_header |-> LegalHeaderAfter(tag, s, st.legal_header),
   legal        |-> LegalHeaderAfter(tag, s, st.legal_header)
                    \/ tag \in {TagAMDPAR, TagSECTION, <<"S", "T", "A", "R", "S">>},
   records      |-> Append(st.records,
                           ParagraphInfo(tag, s, st.header, st.legal_header, extract_numbering))]

\* the body of the inner loop for the paragraph s
ParagraphStep(s, st, extract_numbering) ==
  IF ReMatch(DashedLinePattern, {}, s).ok THEN st
  ELSE IF DropDashed(s) = <<>> THEN st
       ELSE YieldParagraph(tag_html_paragraph(s), DropDashed(s), st, extract_numbering)

\* the inner loop over the paragraphs ss from the k-th on
RECURSIVE ParagraphLoop(_, _, _, _)
ParagraphLoop(ss, k, st, extract_numbering) ==
  IF k > Len(ss) THEN st
  ELSE ParagraphLoop(ss, k + 1, ParagraphStep(ss[k], st, extract_numbering), extract_numbering)

\* "if table: yield {...}": the table's record after the paragraphs before it
YieldTable(table, st) ==
  IF table = <<>> THEN st
  ELSE [st EXCEPT !.records =
          Append(@, [tag |-> TagGPOTABLE, text |-> table, footnote |-> NaN,
                     footnotes |-> NaN, header |-> st.header, legal |-> st.legal,
                     numbering |-> NaN])]

\* one iteration of "for text,table in split_tables(text)"
SegmentStep(pair, st, extract_numbering) ==
  YieldTable(pair[2],
             ParagraphLoop(ReFindAll(ParagraphPattern, MarkParagraphs(pair[1])), 1, st,
                           extract_numbering))

(***************************************************************************)
(* State                                                                   *)
(***************************************************************************)
VARIABLES
  \* standardize_frdoc_number applied to identifiers
  sd_in,        \* the identifier d passed in (a text, or None)
  sd_in2,       \* an identifier written another way
  sd_out,       \* standardize_frdoc_number(sd_in)
  sd_out2,      \* standardize_frdoc_number(sd_in2)
  sd_twice,     \* standardize_frdoc_number(sd_out)
  sd_pc,
  \* extract_frdoc_number applied to citation strings
  ex_parts,     \* how the citation string is written: [pre, y, sep, n, suf]
  ex_in,        \* the citation string s
  ex_out,       \* extract_frdoc_number(ex_in)
  ex_pc,
  \* FrdocResolver: one call
  info_df,      \* the registry: self.info_df
  doc_element,  \* the filing element iter_docs is at: its FRDOC children, its citation
  doc_info,     \* the filing passed to __call__
  rs_out,       \* what __call__ returned
  rs_pc,
  \* main: the batch pass of compile_parsed (its registry is info_df)
  xml_docs,     \* the filings iter_docs yields, in order
  force_update, \* args.force_update
  parsed_dir,   \* the output directory: file name -> the tree parsed into it
  existing,     \* main's set of identifiers that have output
  n_parsed,
  frdoc_counts, \* Counter of the resolved identifiers
  failed,       \* the filings that did not resolve
  doc_i,        \* position of the loop in xml_docs
  mn_pc,
  pass_no,      \* which run of main this is
  parsed_dir0,  \* the output directory as the run found it
  writes,       \* the to_pickle calls of this run: [frdoc, doc_tree]
  \* parse_test and parse_reg_xml_tree
  xml_tree,          \* the document: its elements in document order
  xp_call,           \* which of parse_test's calls of the parser this is
  split_paragraphs,
  extract_numbering,
  part_cfr_map,
  paragraphs,        \* the records appended so far
  header,
  part_element,
  xp_i,              \* position of the loop in root.iter()
  xp_pc,
  parsed_dfs,        \* the data frames returned so far, one for each call
  \* extract_html_paragraphs
  html_text,         \* the text passed in
  html_numbering,    \* its argument extract_numbering
  segments,          \* the (text, table) pairs split_tables yields
  seg_i,             \* position of the outer loop in them
  html_st,           \* header, legal_header, legal and the records yielded
  html_pc,
  \* get_with_retry
  retry_intervals,   \* its arguments
  wait_interval,
  check_json,
  gw_i,              \* position of the loop in retry_intervals; past it, the else clause
  gw_r,              \* the response of the last request
  gw_out,            \* what the call returned or raised
  gw_depth,          \* how many calls of get_with_retry are open inside the first
  gw_slept,          \* the argument of the last time.sleep
  gw_requests,       \* the requests issued since the outermost call
  gw_pc,
  \* iter_docs: the page numbers of the filings of one container
  type_element,      \* the container: PRTPAGE elements and filings, in document order
  start_page,
  pg_j,              \* position of the loop in the filings
  pg_docs,           \* the docs yielded: [start_page, end_page]
  pg_pc,
  \* split_numbering applied to texts
  sn_in,             \* the argument s
  sn_out,            \* the pair returned
  sn_pc

sdVars == <<sd_in, sd_in2, sd_out, sd_out2, sd_twice, sd_pc>>
exVars == <<ex_parts, ex_in, ex_out, ex_pc>>
rsVars == <<info_df, doc_element, doc_info, rs_out, rs_pc>>
mnVars == <<xml_docs, force_update, parsed_dir, existing, n_parsed, frdoc_counts,
            failed, doc_i, mn_pc, pass_no, parsed_dir0, writes>>
xpVars == <<xml_tree, xp_call, split_paragraphs, extract_numbering, part_cfr_map,
            paragraphs, header, part_element, xp_i, xp_pc, parsed_dfs>>
htVars == <<html_text, html_numbering, segments, seg_i, html_st, html_pc>>
gwVars == <<retry_intervals, wait_interval, check_json, gw_i, gw_r, gw_out, gw_depth,
            gw_slept, gw_requests, gw_pc>>
pgVars == <<type_element, start_page, pg_j, pg_docs, pg_pc>>
snVars == <<sn_in, sn_out, sn_pc>>
vars   == <<sdVars, exVars, rsVars, mnVars, xpVars, htVars, gwVars, pgVars, snVars>>

\* what the actions of one component leave alone
notSd == <<exVars, rsVars, mnVars, xpVars, htVars,
          gwVars, pgVars, snVars>>
notEx == <<sdVars, rsVars, mnVars, xpVars, htVars,
          gwVars, pgVars, snVars>>
notRs == <<sdVars, exVars, mnVars, xpVars, htVars,
          gwVars, pgVars, snVars>>
notMn == <<sdVars, exVars, doc_element, doc_info, rs_out, rs_pc, xpVars, htVars,
          gwVars, pgVars, snVars>>
notXp == <<sdVars, exVars, rsVars, mnVars, htVars,
          gwVars, pgVars, snVars>>
notHt == <<sdVars, exVars, rsVars, mnVars, xpVars,
          gwVars, pgVars, snVars>>
notGw == <<sdVars, exVars, rsVars, mnVars, xpVars, htVars, pgVars, snVars>>
notPg == <<sdVars, exVars, rsVars, mnVars, xpVars, htVars, gwVars, snVars>>
notSn == <<sdVars, exVars, rsVars, mnVars, xpVars, htVars, gwVars, pgVars>>

Pending == <<"Pending">>   \* a result not computed yet

\* the texts over alphabet A of length at most n
TextsUpTo(A, n) == UNION {[1..k -> A] : k \in 0..n}

(***************************************************************************)
(* Specification SpecStd: the standardizer on bounded identifiers          *)
(***************************************************************************)
MaxIdLen == 3

StdAlphabet == {"2", "0", "5", "E", "-", "a"}

\* "2005-0034", "05-0034", "2005-34": the docstring's one document
ThreeReprs ==
  { <<"2", "0", "0", "5", "-", "0", "0", "3", "4">>,
    <<"0", "5", "-", "0", "0", "3", "4">>,
    <<"2", "0", "0", "5", "-", "3", "4">> }

StdInputs == TextsUpTo(StdAlphabet, MaxIdLen) \cup ThreeReprs \cup {None}

InitSd ==
  /\ sd_in \in StdInputs
  /\ sd_in2 \in ThreeReprs
  /\ sd_out = Pending /\ sd_out2 = Pending /\ sd_twice = Pending
  /\ sd_pc = "start"
  \* the other components are idle
  /\ ex_parts = <<>> /\ ex_in = None /\ ex_out = Pending /\ ex_pc = "idle"
  /\ info_df = <<>> /\ doc_element = <<>> /\ doc_info = None
  /\ rs_out = Pending /\ rs_pc = "idle"
  /\ xml_docs = <<>> /\ force_update = FALSE /\ parsed_dir = <<>> /\ existing = {}
  /\ n_parsed = 0 /\ frdoc_counts = <<>> /\ failed = <<>> /\ doc_i = 0
  /\ mn_pc = "idle" /\ pass_no = 0 /\ parsed_dir0 = <<>> /\ writes = <<>>
  /\ xml_tree = <<>> /\ xp_call = 0 /\ split_paragraphs = FALSE
  /\ extract_numbering = FALSE /\ part_cfr_map = <<>> /\ paragraphs = <<>>
  /\ header = <<>> /\ part_element = 0 /\ xp_i = 0 /\ xp_pc = "idle"
  /\ parsed_dfs = <<>>
  /\ html_text = <<>> /\ html_numbering = FALSE /\ segments = <<>> /\ seg_i = 0
  /\ html_st = <<>> /\ html_pc = "idle"
  /\ retry_intervals = <<>> /\ wait_interval = 0 /\ check_json = FALSE /\ gw_i = 0
  /\ gw_r = None /\ gw_out = Pending /\ gw_depth = 0 /\ gw_slept = 0
  /\ gw_requests = 0 /\ gw_pc = "idle"
  /\ type_element = <<>> /\ start_page = 0 /\ pg_j = 0 /\ pg_docs = <<>> /\ pg_pc = "idle"
  /\ sn_in = None /\ sn_out = Pending /\ sn_pc = "idle"

Standardize ==
  /\ sd_pc = "start"
  /\ sd_out' = standardize_frdoc_number(sd_in)
  /\ sd_pc' = "first"
  /\ UNCHANGED <<sd_in, sd_in2, sd_out2, sd_twice, notSd>>

StandardizeOther ==
  /\ sd_pc = "first"
  /\ sd_out2' = standardize_frdoc_number(sd_in2)
  /\ sd_pc' = "second"
  /\ UNCHANGED <<sd_in, sd_in2, sd_out, sd_twice, notSd>>

StandardizeAgain ==
  /\ sd_pc = "second"
  /\ sd_twice' = standardize_frdoc_number(sd_out)
  /\ sd_pc' = "done"
  /\ UNCHANGED <<sd_in, sd_in2, sd_out, sd_out2, notSd>>

NextSd == Standardize \/ StandardizeOther \/ StandardizeAgain

SpecStd == InitSd /\ [][NextSd]_vars

(***************************************************************************)
(* Specification SpecExtract: the extractor on bounded citation strings    *)
(***************************************************************************)
MaxDigits == 2

ExDigits == {"0", "1", "9"}

DigitStrings == TextsUpTo(ExDigits, MaxDigits) \ {<<>>}

StdPrefix == <<"[", "F", "R", " ", "D", "o", "c", ".", " ">>

ExPrefixes ==
  { StdPrefix,
    <<"[", "F", "R", " ", "D", "o", "c", ".">>,
    <<"[", "J", "R", " ", "D", "o", "c", ".", " ">> }

ExSeps == { <<"-">>, <<"-", " ">>, <<" ">> }

FiledSuffix == <<" ", "F", "i", "l", "e", "d", " ", "1", "-", "1", "8", "-", "1", "2",
                 ";", " ", "8", ":", "4", "5", " ", "a", "m", "]">>

ExSuffixes ==
  { FiledSuffix,
    <<" ", "F", "i", "l", "e", "d", "]">>,
    <<" ", "1", "-", "1", "8", "-", "1", "2", ";", " ", "8", ":", "4", "5", " ", "a", "m", "]">> }

Citation(parts) == parts.pre \o parts.y \o parts.sep \o parts.n \o parts.suf

InitEx ==
  /\ ex_parts \in [pre : ExPrefixes, y : DigitStrings, sep : ExSeps,
                   n : DigitStrings, suf : ExSuffixes]
  /\ ex_in = Citation(ex_parts)
  /\ ex_out = Pending
  /\ ex_pc = "start"
  \* the other components are idle
  /\ sd_in = None /\ sd_in2 = None /\ sd_out = Pending /\ sd_out2 = Pending
  /\ sd_twice = Pending /\ sd_pc = "idle"
  /\ info_df = <<>> /\ doc_element = <<>> /\ doc_info = None
  /\ rs_out = Pending /\ rs_pc = "idle"
  /\ xml_docs = <<>> /\ force_update = FALSE /\ parsed_dir = <<>> /\ existing = {}
  /\ n_parsed = 0 /\ frdoc_counts = <<>> /\ failed = <<>> /\ doc_i = 0
  /\ mn_pc = "idle" /\ pass_no = 0 /\ parsed_dir0 = <<>> /\ writes = <<>>
  /\ xml_tree = <<>> /\ xp_call = 0 /\ split_paragraphs = FALSE
  /\ extract_numbering = FALSE /\ part_cfr_map = <<>> /\ paragraphs = <<>>
  /\ header = <<>> /\ part_element = 0 /\ xp_i = 0 /\ xp_pc = "idle"
  /\ parsed_dfs = <<>>
  /\ html_text = <<>> /\ html_numbering = FALSE /\ segments = <<>> /\ seg_i = 0
  /\ html_st = <<>> /\ html_pc = "idle"
  /\ retry_intervals = <<>> /\ wait_interval = 0 /\ check_json = FALSE /\ gw_i = 0
  /\ gw_r = None /\ gw_out = Pending /\ gw_depth = 0 /\ gw_slept = 0
  /\ gw_requests = 0 /\ gw_pc = "idle"
  /\ type_element = <<>> /\ start_page = 0 /\ pg_j = 0 /\ pg_docs = <<>> /\ pg_pc = "idle"
  /\ sn_in = None /\ sn_out = Pending /\ sn_pc = "idle"

Extract ==
  /\ ex_pc = "start"
  /\ ex_out' = extract_frdoc_number(ex_in)
  /\ ex_pc' = "done"
  /\ UNCHANGED <<ex_parts, ex_in, notEx>>

NextEx == Extract

SpecExtract == InitEx /\ [][NextEx]_vars

(***************************************************************************)
(* Specification SpecResolve: one call of the resolver on a bounded        *)
(* registry and filing                                                     *)
(***************************************************************************)
MaxRegistry == 3

RegistryIds ==
  { <<"1", "2", "-", "1", "1", "4", "9">>,
    <<"E", "7", "-", "1", "5", "9", "2">>,
    <<"7", "-", "1", "5", "9", "2", "A">> }

\* FR citations: one base, and one differing from it in each single field
BaseCitation ==
  [publication_date |-> "2012-01-19", volume |-> 77, start_page |-> 100, end_page |-> 102]

Citations ==
  { BaseCitation,
    [BaseCitation EXCEPT !.publication_date = "2012-01-20"],
    [BaseCitation EXCEPT !.volume = 78],
    [BaseCitation EXCEPT !.start_page = 101],
    [BaseCitation EXCEPT !.end_page = 103] }

RegistryRow(id, c) ==
  [frdoc_number |-> id, publication_date |-> c.publication_date,
   volume |-> c.volume, start_page |-> c.start_page, end_page |-> c.end_page]

Filing(s, c) ==
  [frdoc_string |-> s, publication_date |-> c.publication_date,
   volume |-> c.volume, start_page |-> c.start_page, end_page |-> c.end_page]

RegistryRows == {RegistryRow(id, c) : id \in RegistryIds, c \in Citations}

\* the registries: at most MaxRegistry rows, no id twice
Registries ==
  {r \in UNION {[1..k -> RegistryRows] : k \in 0..MaxRegistry} :
     \A a, b \in 1..Len(r) : a # b => r[a].frdoc_number # r[b].frdoc_number}

FrdocStrings ==
  { <<"[", "F", "R", " ", "D", "o", "c", ".", " ", "1", "2", "-", "1", "1", "4", "9",
      " ", "F", "i", "l", "e", "d", "]">>,
    <<"[", "F", "R", " ", "D", "o", "c", ".", " ", "7", "-", "1", "5", "9", "2",
      " ", "F", "i", "l", "e", "d", "]">>,
    <<"[", "F", "R", " ", "D", "o", "k", " ", "1", "2", "-", "1", "1", "4", "9",
      " ", "F", "i", "e", "l", "d", "]">>,
    <<"[", "F", "R", " ", "D", "o", "c", ".", " ", "1", "2", "-", "1", "1", "9", "4",
      " ", "F", "i", "l", "e", "d", "]">> }

\* the FRDOC children a filing element may have: none; one, of one text, of
\* no text or of a text in two pieces around a child element; two
FrdocElementLists ==
  {<<>>, << <<>> >>}
  \cup {<< <<s>> >> : s \in FrdocStrings}
  \cup { << << <<"[", "F", "R", " ", "D", "o", "c", ".">>,
               <<"1", "2", "-", "1", "1", "4", "9", " ", "F", "i", "l", "e", "d", "]">> >> >>,
         << << <<"[", "F", "R", " ", "D", "o", "c", ".", " ", "1", "2", "-", "1", "1", "4", "9",
                 " ", "F", "i", "l", "e", "d", "]">> >>,
            << <<"[", "F", "R", " ", "D", "o", "c", ".", " ", "7", "-", "1", "5", "9", "2",
                 " ", "F", "i", "l", "e", "d", "]">> >> >> }

\* the filing elements: their FRDOC children and the FR citation iter_docs
\* reads for them
DocElements ==
  [FRDOC : FrdocElementLists,
   citation : {BaseCitation, [BaseCitation EXCEPT !.end_page = 103]}]

InitRs ==
  /\ info_df \in Registries
  /\ doc_element \in DocElements
  /\ doc_info = None
  /\ rs_out = Pending
  /\ rs_pc = "start"
  \* the other components are idle
  /\ xml_docs = <<>> /\ force_update = FALSE /\ parsed_dir = <<>> /\ existing = {}
  /\ n_parsed = 0 /\ frdoc_counts = <<>> /\ failed = <<>> /\ doc_i = 0
  /\ mn_pc = "idle" /\ pass_no = 0 /\ parsed_dir0 = <<>> /\ writes = <<>>
  /\ xml_tree = <<>> /\ xp_call = 0 /\ split_paragraphs = FALSE
  /\ extract_numbering = FALSE /\ part_cfr_map = <<>> /\ paragraphs = <<>>
  /\ header = <<>> /\ part_element = 0 /\ xp_i = 0 /\ xp_pc = "idle"
  /\ parsed_dfs = <<>>
  /\ html_text = <<>> /\ html_numbering = FALSE /\ segments = <<>> /\ seg_i = 0
  /\ html_st = <<>> /\ html_pc = "idle"
  /\ sd_in = None /\ sd_in2 = None /\ sd_out = Pending /\ sd_out2 = Pending
  /\ sd_twice = Pending /\ sd_pc = "idle"
  /\ ex_parts = <<>> /\ ex_in = None /\ ex_out = Pending /\ ex_pc = "idle"
  /\ retry_intervals = <<>> /\ wait_interval = 0 /\ check_json = FALSE /\ gw_i = 0
  /\ gw_r = None /\ gw_out = Pending /\ gw_depth = 0 /\ gw_slept = 0
  /\ gw_requests = 0 /\ gw_pc = "idle"
  /\ type_element = <<>> /\ start_page = 0 /\ pg_j = 0 /\ pg_docs = <<>> /\ pg_pc = "idle"
  /\ sn_in = None /\ sn_out = Pending /\ sn_pc = "idle"

\* iter_docs, lines 210-242: the doc of the filing element is yielded
IterDocs ==
  /\ rs_pc = "start"
  /\ doc_info' = Filing(FrdocStringOf(doc_element.FRDOC), doc_element.citation)
  /\ rs_pc' = "yielded"
  /\ UNCHANGED <<info_df, doc_element, rs_out, notRs>>

Resolve ==
  /\ rs_pc = "yielded"
  /\ rs_out' = FrdocResolver(info_df, doc_info)
  /\ rs_pc' = "done"
  /\ UNCHANGED <<info_df, doc_element, doc_info, notRs>>

NextRs == IterDocs \/ Resolve

SpecResolve == InitRs /\ [][NextRs]_vars

(***************************************************************************)
(* main (compile_parsed): the batch pass, and the pass run again           *)
(***************************************************************************)
PklSuffix == <<".", "p", "k", "l">>

\* f'{frdoc}.pkl'
FileName(frdoc) == frdoc \o PklSuffix

\* f.rsplit('.',1)[0]: the name up to its last dot, all of it without a dot
RECURSIVE RSplitDotAt(_, _)
RSplitDotAt(f, k) ==
  IF k = 0 THEN f
  ELSE IF f[k] = "." THEN SubSeq(f, 1, k - 1) ELSE RSplitDotAt(f, k - 1)

FileStem(f) == RSplitDotAt(f, Len(f))

\* {f.rsplit('.',1)[0] for f in os.listdir(parsed_dir)}
ListStems(dir) == {FileStem(f) : f \in DOMAIN dir}

\* As ShouldParse without the test "frdoc not in existing"
ShouldParseAlways(frdoc, exist, force) == TRUE

\* (frdoc not in existing) or args.force_update
ShouldParse(frdoc, exist, force) == (frdoc \notin exist) \/ force

\* frdoc_counts.update([frdoc])
CounterUpdate(counts, frdoc) ==
  IF frdoc \in DOMAIN counts
  THEN [counts EXCEPT ![frdoc] = @ + 1]
  ELSE (frdoc :> 1) @@ counts

\* parsed_df.to_pickle(parsed_dir/f'{frdoc}.pkl'): the file is created or replaced
ToPickle(dir, frdoc, tree) ==
  [f \in (DOMAIN dir) \cup {FileName(frdoc)} |->
     IF f = FileName(frdoc) THEN tree ELSE dir[f]]

MaxDocs == 3
MaxPasses == 2

\* the registries of the pass: two ids with their own FR citations, and the
\* same two tied on one citation
PassRegistries ==
  { << RegistryRow(<<"1", "2", "-", "1", "1", "4", "9">>, BaseCitation),
       RegistryRow(<<"E", "7", "-", "1", "5", "9", "2">>, [BaseCitation EXCEPT !.end_page = 103]) >>,
    << RegistryRow(<<"1", "2", "-", "1", "1", "4", "9">>, BaseCitation),
       RegistryRow(<<"E", "7", "-", "1", "5", "9", "2">>, BaseCitation) >> }

\* the filings of the pass: an exact number, no FRDOC element, a number that
\* needs standardizing, a number the registry does not hold
PassFilings ==
  { Filing(<<"[", "F", "R", " ", "D", "o", "c", ".", " ", "1", "2", "-", "1", "1", "4", "9",
             " ", "F", "i", "l", "e", "d", "]">>, [BaseCitation EXCEPT !.volume = 78]),
    Filing(None, BaseCitation),
    Filing(<<"[", "F", "R", " ", "D", "o", "c", ".", " ", "7", "-", "1", "5", "9", "2",
             " ", "F", "i", "l", "e", "d", "]">>, [BaseCitation EXCEPT !.end_page = 103]),
    Filing(<<"[", "F", "R", " ", "D", "o", "c", ".", " ", "1", "2", "-", "1", "1", "9", "4",
             " ", "F", "i", "l", "e", "d", "]">>, [BaseCitation EXCEPT !.volume = 78]) }

\* the tree left in a file by an earlier run
OldTree == 0

\* the output directories a run may find: files of some of the registry's ids
InitialDirs(df) ==
  {[f \in {FileName(id) : id \in ids} |-> OldTree] : ids \in SUBSET all_frdocs(df)}

\* iter_docs' doc: the filing and its own document tree (k names the tree)
Doc(filing, k) ==
  [doc_tree |-> k, frdoc_string |-> filing.frdoc_string,
   publication_date |-> filing.publication_date, volume |-> filing.volume,
   start_page |-> filing.start_page, end_page |-> filing.end_page]

InitMn ==
  /\ info_df \in PassRegistries
  /\ \E n \in 0..MaxDocs : \E fs \in [1..n -> PassFilings] :
       xml_docs = [k \in 1..n |-> Doc(fs[k], k)]
  /\ force_update \in BOOLEAN
  /\ parsed_dir \in InitialDirs(info_df)
  /\ parsed_dir0 = parsed_dir
  /\ existing = {} /\ n_parsed = 0 /\ frdoc_counts = <<>> /\ failed = <<>>
  /\ doc_i = 0 /\ writes = <<>>
  /\ pass_no = 1
  /\ mn_pc = "start"
  \* the other components are idle
  /\ sd_in = None /\ sd_in2 = None /\ sd_out = Pending /\ sd_out2 = Pending
  /\ sd_twice = Pending /\ sd_pc = "idle"
  /\ ex_parts = <<>> /\ ex_in = None /\ ex_out = Pending /\ ex_pc = "idle"
  /\ doc_element = <<>> /\ doc_info = None /\ rs_out = Pending /\ rs_pc = "idle"
  /\ xml_tree = <<>> /\ xp_call = 0 /\ split_paragraphs = FALSE
  /\ extract_numbering = FALSE /\ part_cfr_map = <<>> /\ paragraphs = <<>>
  /\ header = <<>> /\ part_element = 0 /\ xp_i = 0 /\ xp_pc = "idle"
  /\ parsed_dfs = <<>>
  /\ html_text = <<>> /\ html_numbering = FALSE /\ segments = <<>> /\ seg_i = 0
  /\ html_st = <<>> /\ html_pc = "idle"
  /\ retry_intervals = <<>> /\ wait_interval = 0 /\ check_json = FALSE /\ gw_i = 0
  /\ gw_r = None /\ gw_out = Pending /\ gw_depth = 0 /\ gw_slept = 0
  /\ gw_requests = 0 /\ gw_pc = "idle"
  /\ type_element = <<>> /\ start_page = 0 /\ pg_j = 0 /\ pg_docs = <<>> /\ pg_pc = "idle"
  /\ sn_in = None /\ sn_out = Pending /\ sn_pc = "idle"

\* main, lines 254-264: the resolver is built, existing is read from the directory
MainStart ==
  /\ mn_pc = "start"
  /\ existing' = IF ~force_update THEN ListStems(parsed_dir) ELSE {}
  /\ n_parsed' = 0
  /\ frdoc_counts' = <<>>
  /\ failed' = <<>>
  /\ doc_i' = 1
  /\ mn_pc' = "loop"
  /\ UNCHANGED <<info_df, xml_docs, force_update, parsed_dir, pass_no, parsed_dir0,
                 writes, notMn>>

\* As MainBody without "failed.append(doc)": an unresolved filing leaves no trace
MainBodyFailedDropped(doc, frdoc) ==
  IF Truthy(frdoc)
  THEN /\ frdoc_counts' = CounterUpdate(frdoc_counts, frdoc)
       /\ IF ShouldParse(frdoc, existing, force_update)
          THEN /\ parsed_dir' = ToPickle(parsed_dir, frdoc, doc.doc_tree)
               /\ writes' = Append(writes, [frdoc |-> frdoc, doc_tree |-> doc.doc_tree])
               /\ existing' = existing \cup {frdoc}
               /\ n_parsed' = n_parsed + 1
          ELSE UNCHANGED <<parsed_dir, writes, existing, n_parsed>>
       /\ UNCHANGED failed
  ELSE UNCHANGED <<failed, frdoc_counts, parsed_dir, writes, existing, n_parsed>>

\* the body of "for doc in iter_docs(xml_dir)" once frdoc_resolver(doc) gave frdoc
MainBody(doc, frdoc) ==
  IF Truthy(frdoc)
  THEN /\ frdoc_counts' = CounterUpdate(frdoc_counts, frdoc)
       /\ IF ShouldParse(frdoc, existing, force_update)
          THEN /\ parsed_dir' = ToPickle(parsed_dir, frdoc, doc.doc_tree)
               /\ writes' = Append(writes, [frdoc |-> frdoc, doc_tree |-> doc.doc_tree])
               /\ existing' = existing \cup {frdoc}
               /\ n_parsed' = n_parsed + 1
          ELSE UNCHANGED <<parsed_dir, writes, existing, n_parsed>>
       /\ UNCHANGED failed
  ELSE /\ failed' = Append(failed, doc)
       /\ UNCHANGED <<frdoc_counts, parsed_dir, writes, existing, n_parsed>>

\* main, lines 265-279: one iteration of the loop
MainDoc ==
  /\ mn_pc = "loop"
  /\ doc_i <= Len(xml_docs)
  /\ MainBody(xml_docs[doc_i], FrdocResolver(info_df, xml_docs[doc_i]))
  /\ doc_i' = doc_i + 1
  /\ UNCHANGED <<info_df, xml_docs, force_update, mn_pc, pass_no, parsed_dir0, notMn>>

\* main, lines 281-311: the loop is over, the summary is printed
MainEnd ==
  /\ mn_pc = "loop"
  /\ doc_i > Len(xml_docs)
  /\ mn_pc' = "done"
  /\ UNCHANGED <<info_df, xml_docs, force_update, parsed_dir, existing, n_parsed,
                 frdoc_counts, failed, doc_i, pass_no, parsed_dir0, writes, notMn>>

\* the same pass is run again, over the same filings and the directory as it is
RunAgain ==
  /\ mn_pc = "done"
  /\ pass_no < MaxPasses
  /\ pass_no' = pass_no + 1
  /\ parsed_dir0' = parsed_dir
  /\ writes' = <<>>
  /\ mn_pc' = "start"
  /\ UNCHANGED <<info_df, xml_docs, force_update, parsed_dir, existing, n_parsed,
                 frdoc_counts, failed, doc_i, notMn>>

NextMn == MainStart \/ MainDoc \/ MainEnd \/ RunAgain

SpecPass == InitMn /\ [][NextMn]_vars

(***************************************************************************)
(* Specification SpecXml: parse_test's calls of the XML parser on one      *)
(* bounded document                                                        *)
(***************************************************************************)
MaxTextLen == 3

XmlAlphabet == {"a", " ", "\n"}

\* the texts an element may hold, None for no text at all
XmlTexts == TextsUpTo(XmlAlphabet, MaxTextLen) \cup {None}

\* an element without attributes
Elem(tag, depth, text, tail) ==
  [tag |-> tag, depth |-> depth, text |-> text, tail |-> tail,
   SOURCE |-> None, TITLE |-> None, PART |-> None]

\* <HD SOURCE=...>
Hd(depth, source, text) ==
  [tag |-> TagHD, depth |-> depth, text |-> text, tail |-> NL,
   SOURCE |-> source, TITLE |-> None, PART |-> None]

\* <REGTEXT TITLE=... PART=...>
RegText(depth, title, part) ==
  [tag |-> TagREGTEXT, depth |-> depth, text |-> NL, tail |-> NL,
   SOURCE |-> None, TITLE |-> title, PART |-> part]

\* the root element of a document
Root == Elem(TagRULE, 0, NL, None)

\* the tails that may follow an emphasised run inside a paragraph
ChildTails == {None, NL, <<" ", "\n", "a">>}

\* documents of paragraphs over every bounded text
SplitDocs ==
  {<<Root, Elem(TagP, 1, t, NL)>> : t \in XmlTexts}
  \cup
  {<<Root, Elem(TagP, 1, t, NL), Elem(TagE, 2, <<"b">>, u), Elem(TagP, 1, <<"a", "\n", "\n", " ", "a">>, NL)>> :
     t \in XmlTexts, u \in ChildTails}

\* the preambles: none, one CFR citation, two in two elements, two in one
\* element, a CFR element without a part, a CFR element without a tail, two
\* titles citing the same part
Preambles ==
  { <<>>,
    <<Elem(TagPREAMB, 1, NL, NL), Elem(TagCFR, 2, <<"1", "2", " ", "C", "F", "R", " ", "5">>, NL)>>,
    <<Elem(TagPREAMB, 1, NL, NL), Elem(TagCFR, 2, <<"1", "2", " ", "C", "F", "R", " ", "5">>, NL),
      Elem(TagCFR, 2, <<"4", "0", " ", "C", "F", "R", " ", "7">>, NL)>>,
    <<Elem(TagPREAMB, 1, NL, NL), Elem(TagCFR, 2, <<"1", "2", " ", "C", "F", "R", " ", "5", " ", "7">>, NL)>>,
    <<Elem(TagPREAMB, 1, NL, NL), Elem(TagCFR, 2, <<"C", "F", "R">>, NL)>>,
    <<Elem(TagPREAMB, 1, NL, NL), Elem(TagCFR, 2, <<"1", "2", " ", "C", "F", "R", " ", "5">>, None)>>,
    <<Elem(TagPREAMB, 1, NL, NL), Elem(TagCFR, 2, <<"1", "2", " ", "C", "F", "R", " ", "5">>, NL),
      Elem(TagCFR, 2, <<"4", "0", " ", "C", "F", "R", " ", "5">>, NL)>> }

\* one PART holding a header, a paragraph, a section, a subpart and a REGTEXT,
\* followed by a paragraph and an extract outside of it
BodyOnePart ==
  << Elem(TagPART, 1, NL, NL),
       Hd(2, <<"H", "E", "D">>, <<"P", "a", "r", "t", " ", "5">>),
       Elem(TagP, 2, <<"a">>, NL),
       Elem(TagSECTION, 2, NL, NL),
         Elem(TagSECTNO, 3, <<"S", " ", "5", ".", "1">>, NL),
         Elem(TagSUBJECT, 3, <<"s">>, NL),
         Elem(TagP, 3, <<"(", "a", ")", " ", "b">>, NL),
       Elem(TagSUBPART, 2, NL, NL),
         Hd(3, <<"H", "D", "1">>, <<"A">>),
       RegText(2, <<"1", "2">>, <<"7">>),
         Elem(TagAMDPAR, 3, <<"1", ".", " ", "c">>, NL),
     Elem(TagP, 1, <<"z">>, NL),
     Elem(TagEXTRACT, 1, NL, NL),
       Elem(TagP, 2, <<"q">>, NL) >>

\* two PARTs after a List of Subjects that cites one CFR part
BodyTwoParts ==
  << Elem(TagLSTSUB, 1, NL, NL),
       Elem(TagCFR, 2, <<"1", "2", " ", "C", "F", "R", " ", "5">>, NL),
     Elem(TagPART, 1, NL, NL),
       Hd(2, None, <<"P", "A", "R", "T", " ", "5">>),
       Elem(TagAMDPAR, 2, <<"b">>, NL),
     Elem(TagPART, 1, NL, NL),
       Hd(2, <<"H", "D", "1">>, <<"P", "a", "r", "t", " ", "7">>),
       Elem(TagAMDPAR, 2, <<"c">>, NL) >>

\* one PART after its List of Subjects
BodyLstsubPart ==
  << Elem(TagLSTSUB, 1, NL, NL),
       Elem(TagCFR, 2, <<"4", "0", " ", "C", "F", "R", " ", "7">>, NL),
     Elem(TagPART, 1, NL, NL),
       Elem(TagSECTION, 2, NL, NL),
         Elem(TagP, 3, <<"a">>, NL) >>

\* headers of several levels, a footnote and a footnote reference, no PART
BodyNotes ==
  << Hd(1, <<"H", "D", "2">>, <<"h">>),
     Hd(1, None, <<"i">>),
     Elem(TagP, 1, <<"a">>, NL),
       Elem(TagSU, 2, <<"1">>, <<"b">>),
     Elem(TagFTNT, 1, NL, NL),
       Elem(TagP, 2, NL, NL),
         Elem(TagSU, 3, <<"1">>, <<" ", "c">>) >>

\* a section whose closing tag is followed by nothing
BodyNoTail ==
  << Elem(TagPART, 1, NL, NL),
       Elem(TagSECTION, 2, NL, None),
         Elem(TagP, 3, <<"a">>, NL) >>

\* a header whose SOURCE names no level
BodyBadLevel ==
  << Elem(TagP, 1, <<"a">>, NL),
     Hd(1, <<"H", "D", "X">>, <<"h">>) >>

\* headers only: one replaced at its own level, a level skipped, levels closed
BodyHeaders ==
  << Hd(1, <<"H", "E", "D">>, <<"g">>),
     Hd(1, <<"H", "D", "1">>, <<"h">>),
     Elem(TagP, 1, <<"a">>, NL),
     Hd(1, <<"H", "D", "1">>, <<"i">>),
     Hd(1, <<"H", "D", "3">>, <<"j">>),
     Elem(TagP, 1, <<"b">>, NL),
     Hd(1, <<"H", "D", "1">>, <<"k">>),
     Hd(1, None, <<"l">>),
     Elem(TagP, 1, <<"c">>, NL) >>

\* two PARTs after a List of Subjects that cites two CFR parts; the header
\* of the first names the part cited for it, the header of the second another
BodyLstsubHeaders ==
  << Elem(TagLSTSUB, 1, NL, NL),
       Elem(TagCFR, 2, <<"1", "2", " ", "C", "F", "R", " ", "5", " ", "7">>, NL),
     Elem(TagPART, 1, NL, NL),
       Hd(2, None, <<"P", "a", "r", "t", " ", "5">>),
       Elem(TagAMDPAR, 2, <<"b">>, NL),
     Elem(TagPART, 1, NL, NL),
       Hd(2, None, <<"P", "a", "r", "t", " ", "9">>),
       Elem(TagAMDPAR, 2, <<"c">>, NL) >>

\* three PARTs and no List of Subjects: a header naming part 5, a header
\* with the placeholder for a part number, no header
BodyHeaderParts ==
  << Elem(TagPART, 1, NL, NL),
       Hd(2, None, <<"P", "a", "r", "t", " ", "5">>),
       Elem(TagAMDPAR, 2, <<"b">>, NL),
     Elem(TagPART, 1, NL, NL),
       Hd(2, None, <<"P", "a", "r", "t", " ", "_">>),
       Elem(TagAMDPAR, 2, <<"c">>, NL),
     Elem(TagPART, 1, NL, NL),
       Elem(TagAMDPAR, 2, <<"d">>, NL) >>

Bodies ==
  {<<>>, BodyOnePart, BodyTwoParts, BodyLstsubPart, BodyNotes, BodyNoTail, BodyBadLevel,
   BodyHeaders, BodyLstsubHeaders, BodyHeaderParts}

\* documents of every preamble with every body
CfrDocs == {<<Root>> \o pre \o body : pre \in Preambles, body \in Bodies}

XmlDocs == SplitDocs \cup CfrDocs

\* parse_test: parse_xml_file(f), then parse_xml_file(f, split_paragraphs=True,
\* extract_numbering=False) and parse_xml_file(f, split_paragraphs=False,
\* extract_numbering=False)
CallArgs ==
  << [split_paragraphs |-> TRUE,  extract_numbering |-> TRUE],
     [split_paragraphs |-> TRUE,  extract_numbering |-> FALSE],
     [split_paragraphs |-> FALSE, extract_numbering |-> FALSE] >>

InitXp ==
  /\ xml_tree \in XmlDocs
  /\ xp_call = 1
  /\ split_paragraphs = TRUE /\ extract_numbering = TRUE
  /\ part_cfr_map = <<>> /\ paragraphs = <<>> /\ header = <<>>
  /\ part_element = NoElement /\ xp_i = 0
  /\ parsed_dfs = <<>>
  /\ xp_pc = "call"
  \* the other components are idle
  /\ sd_in = None /\ sd_in2 = None /\ sd_out = Pending /\ sd_out2 = Pending
  /\ sd_twice = Pending /\ sd_pc = "idle"
  /\ ex_parts = <<>> /\ ex_in = None /\ ex_out = Pending /\ ex_pc = "idle"
  /\ info_df = <<>> /\ doc_element = <<>> /\ doc_info = None
  /\ rs_out = Pending /\ rs_pc = "idle"
  /\ xml_docs = <<>> /\ force_update = FALSE /\ parsed_dir = <<>> /\ existing = {}
  /\ n_parsed = 0 /\ frdoc_counts = <<>> /\ failed = <<>> /\ doc_i = 0
  /\ mn_pc = "idle" /\ pass_no = 0 /\ parsed_dir0 = <<>> /\ writes = <<>>
  /\ html_text = <<>> /\ html_numbering = FALSE /\ segments = <<>> /\ seg_i = 0
  /\ html_st = <<>> /\ html_pc = "idle"
  /\ retry_intervals = <<>> /\ wait_interval = 0 /\ check_json = FALSE /\ gw_i = 0
  /\ gw_r = None /\ gw_out = Pending /\ gw_depth = 0 /\ gw_slept = 0
  /\ gw_requests = 0 /\ gw_pc = "idle"
  /\ type_element = <<>> /\ start_page = 0 /\ pg_j = 0 /\ pg_docs = <<>> /\ pg_pc = "idle"
  /\ sn_in = None /\ sn_out = Pending /\ sn_pc = "idle"

\* parse_reg_xml_tree, lines 206-215: the arguments, the CFR map, the loop's state
ParseStart ==
  /\ xp_pc = "call"
  /\ split_paragraphs' = CallArgs[xp_call].split_paragraphs
  /\ extract_numbering' = CallArgs[xp_call].extract_numbering
  /\ paragraphs' = <<>>
  /\ header' = <<>>
  /\ part_element' = NoElement
  /\ IF PartCfrMapRaises(xml_tree)
     THEN /\ xp_pc' = "raised"
          /\ part_cfr_map' = <<>>
          /\ xp_i' = 0
     ELSE /\ xp_pc' = "walk"
          /\ part_cfr_map' = build_part_cfr_map(xml_tree)
          /\ xp_i' = 1
  /\ UNCHANGED <<xml_tree, xp_call, parsed_dfs, notXp>>

\* parse_reg_xml_tree, lines 216-284: one element of root.iter()
ParseElement ==
  /\ xp_pc = "walk"
  /\ xp_i <= Len(xml_tree)
  /\ IF ElementRaises(xml_tree, xp_i, NextPartElement(xml_tree, xp_i, part_element),
                      part_cfr_map)
     THEN /\ xp_pc' = "raised"
          /\ UNCHANGED <<paragraphs, header, part_element, xp_i>>
     ELSE /\ part_element' = NextPartElement(xml_tree, xp_i, part_element)
          /\ header' = NextHeader(xml_tree, xp_i, header)
          /\ paragraphs' = paragraphs \o
               ElementRecords(xml_tree, xp_i, header', part_element', part_cfr_map,
                              split_paragraphs, extract_numbering)
          /\ xp_i' = xp_i + 1
          /\ xp_pc' = "walk"
  /\ UNCHANGED <<xml_tree, xp_call, split_paragraphs, extract_numbering, part_cfr_map,
                 parsed_dfs, notXp>>

\* parse_reg_xml_tree, lines 286-298: the data frame goes back to parse_test
ParseReturn ==
  /\ xp_pc = "walk"
  /\ xp_i > Len(xml_tree)
  /\ parsed_dfs' = Append(parsed_dfs, paragraphs)
  /\ xp_call' = IF xp_call < Len(CallArgs) THEN xp_call + 1 ELSE xp_call
  /\ xp_pc' = IF xp_call < Len(CallArgs) THEN "call" ELSE "assert"
  /\ UNCHANGED <<xml_tree, split_paragraphs, extract_numbering, part_cfr_map, paragraphs,
                 header, part_element, xp_i, notXp>>

\* parse_test, lines 18-21: a data frame without records has no 'text' column
VerifySplitting ==
  /\ xp_pc = "assert"
  /\ xp_pc' = IF Len(parsed_dfs[2]) = 0 \/ Len(parsed_dfs[3]) = 0 THEN "raised"
              ELSE IF JoinTexts(parsed_dfs[2], 1) = JoinTexts(parsed_dfs[3], 1)
                   THEN "verified" ELSE "AssertionError"
  /\ UNCHANGED <<xml_tree, xp_call, split_paragraphs, extract_numbering, part_cfr_map,
                 paragraphs, header, part_element, xp_i, parsed_dfs, notXp>>

NextXp == ParseStart \/ ParseElement \/ ParseReturn \/ VerifySplitting

SpecXml == InitXp /\ [][NextXp]_vars

(***************************************************************************)
(* Specification SpecHtml: extract_html_paragraphs on a bounded text       *)
(***************************************************************************)
MaxLines == 4

\* the lines a text is made of: a dashed rule, a row of figures, a line of
\* words, a blank line, an indented continuation, the first line of a
\* paragraph, a line of stars
HtmlLines ==
  { <<"-", "-", "-", "-", "-">>, <<"1", " ", "2">>, <<"A", "b", "c">>, <<>>, <<" ", " ", " ", " ", " ", "1">>, <<" ", " ", " ", " ", "A", "b", "c", "d", "e">>, <<"*", " ", "*">> }

\* the texts of at most MaxLines lines
HtmlTexts ==
  {StrJoin(ls, NL) : ls \in UNION {[1..n -> HtmlLines] : n \in 1..MaxLines}}

\* texts with two tables: a caption and two dashed rules, twice, with and
\* without a row of figures inside and a line of words after
TwoTableTexts ==
  {StrJoin(<<c, <<"-", "-", "-", "-", "-">>>> \o r \o <<<<"-", "-", "-", "-", "-">>,
             <<"A", "b", "c">>, <<"-", "-", "-", "-", "-">>, <<"-", "-", "-", "-", "-">>>> \o t, NL) :
     c \in {<<"A", "b", "c">>, <<"1", " ", "2">>},
     r \in {<<>>, <<<<"1", " ", "2">>>>},
     t \in {<<>>, <<<<"A", "b", "c">>>>}}

InitHt ==
  /\ html_text \in HtmlTexts \cup TwoTableTexts
  /\ html_numbering \in BOOLEAN
  /\ segments = <<>> /\ seg_i = 0
  /\ html_st = [header |-> None, legal_header |-> FALSE, legal |-> FALSE, records |-> <<>>]
  /\ html_pc = "call"
  \* the other components are idle
  /\ sd_in = None /\ sd_in2 = None /\ sd_out = Pending /\ sd_out2 = Pending
  /\ sd_twice = Pending /\ sd_pc = "idle"
  /\ ex_parts = <<>> /\ ex_in = None /\ ex_out = Pending /\ ex_pc = "idle"
  /\ info_df = <<>> /\ doc_element = <<>> /\ doc_info = None
  /\ rs_out = Pending /\ rs_pc = "idle"
  /\ xml_docs = <<>> /\ force_update = FALSE /\ parsed_dir = <<>> /\ existing = {}
  /\ n_parsed = 0 /\ frdoc_counts = <<>> /\ failed = <<>> /\ doc_i = 0
  /\ mn_pc = "idle" /\ pass_no = 0 /\ parsed_dir0 = <<>> /\ writes = <<>>
  /\ xml_tree = <<>> /\ xp_call = 0 /\ split_paragraphs = FALSE
  /\ extract_numbering = FALSE /\ part_cfr_map = <<>> /\ paragraphs = <<>>
  /\ header = <<>> /\ part_element = 0 /\ xp_i = 0 /\ xp_pc = "idle"
  /\ parsed_dfs = <<>>
  /\ retry_intervals = <<>> /\ wait_interval = 0 /\ check_json = FALSE /\ gw_i = 0
  /\ gw_r = None /\ gw_out = Pending /\ gw_depth = 0 /\ gw_slept = 0
  /\ gw_requests = 0 /\ gw_pc = "idle"
  /\ type_element = <<>> /\ start_page = 0 /\ pg_j = 0 /\ pg_docs = <<>> /\ pg_pc = "idle"
  /\ sn_in = None /\ sn_out = Pending /\ sn_pc = "idle"

\* extract_html_paragraphs, lines 419-423: the state of the loop, split_tables
HtmlStart ==
  /\ html_pc = "call"
  /\ segments' = split_tables(html_text)
  /\ seg_i' = 1
  /\ html_st' = [header |-> None, legal_header |-> FALSE, legal |-> FALSE, records |-> <<>>]
  /\ html_pc' = "loop"
  /\ UNCHANGED <<html_text, html_numbering, notHt>>

\* extract_html_paragraphs, lines 423-468: one (text, table) pair
HtmlSegment ==
  /\ html_pc = "loop"
  /\ seg_i <= Len(segments)
  /\ html_st' = SegmentStep(segments[seg_i], html_st, html_numbering)
  /\ seg_i' = seg_i + 1
  /\ UNCHANGED <<html_text, html_numbering, segments, html_pc, notHt>>

\* parse_html, line 473: the generator is exhausted
HtmlEnd ==
  /\ html_pc = "loop"
  /\ seg_i > Len(segments)
  /\ html_pc' = "done"
  /\ UNCHANGED <<html_text, html_numbering, segments, seg_i, html_st, notHt>>

NextHt == HtmlStart \/ HtmlSegment \/ HtmlEnd

SpecHtml == InitHt /\ [][NextHt]_vars

(***************************************************************************)
(* Specification SpecNumbering: split_numbering on a bounded text          *)
(***************************************************************************)
MaxNumLen == 4

NumAlphabet == {"(", "a", ")", "1", "A", ".", " "}

\* the arguments: every text of at most MaxNumLen characters, and None
NumberingInputs == TextsUpTo(NumAlphabet, MaxNumLen) \cup {None}

InitSn ==
  /\ sn_in \in NumberingInputs
  /\ sn_out = Pending
  /\ sn_pc = "call"
  \* the other components are idle
  /\ sd_in = None /\ sd_in2 = None /\ sd_out = Pending /\ sd_out2 = Pending
  /\ sd_twice = Pending /\ sd_pc = "idle"
  /\ ex_parts = <<>> /\ ex_in = None /\ ex_out = Pending /\ ex_pc = "idle"
  /\ info_df = <<>> /\ doc_element = <<>> /\ doc_info = None
  /\ rs_out = Pending /\ rs_pc = "idle"
  /\ xml_docs = <<>> /\ force_update = FALSE /\ parsed_dir = <<>> /\ existing = {}
  /\ n_parsed = 0 /\ frdoc_counts = <<>> /\ failed = <<>> /\ doc_i = 0
  /\ mn_pc = "idle" /\ pass_no = 0 /\ parsed_dir0 = <<>> /\ writes = <<>>
  /\ xml_tree = <<>> /\ xp_call = 0 /\ split_paragraphs = FALSE
  /\ extract_numbering = FALSE /\ part_cfr_map = <<>> /\ paragraphs = <<>>
  /\ header = <<>> /\ part_element = 0 /\ xp_i = 0 /\ xp_pc = "idle"
  /\ parsed_dfs = <<>>
  /\ html_text = <<>> /\ html_numbering = FALSE /\ segments = <<>> /\ seg_i = 0
  /\ html_st = <<>> /\ html_pc = "idle"
  /\ retry_intervals = <<>> /\ wait_interval = 0 /\ check_json = FALSE /\ gw_i = 0
  /\ gw_r = None /\ gw_out = Pending /\ gw_depth = 0 /\ gw_slept = 0
  /\ gw_requests = 0 /\ gw_pc = "idle"
  /\ type_element = <<>> /\ start_page = 0 /\ pg_j = 0 /\ pg_docs = <<>> /\ pg_pc = "idle"

\* "paragraph_info['numbering'],paragraph_info['text'] = split_numbering(par_text)"
SplitNumbering ==
  /\ sn_pc = "call"
  /\ sn_out' = split_numbering(sn_in)
  /\ sn_pc' = "done"
  /\ UNCHANGED <<sn_in, notSn>>

NextSn == SplitNumbering

SpecNumbering == InitSn /\ [][NextSn]_vars

(***************************************************************************)
(* iter_docs: the page numbers of the filings of one container             *)
(***************************************************************************)
\* page.isdigit()
IsDigitText(page) == page # <<>> /\ \A k \in 1..Len(page) : page[k] \in Digits

\* int(page) for a text of digits
RECURSIVE IntOf(_)
IntOf(page) ==
  IF page = <<>> THEN 0
  ELSE 10 * IntOf(SubSeq(page, 1, Len(page) - 1))
       + (CHOOSE n \in 0..9 : DigitText[n + 1] = page[Len(page)])

\* xpath('.//PRTPAGE/@P') below a filing or below the container, in document order
RECURSIVE PrtPagesFrom(_, _)
PrtPagesFrom(items, k) ==
  IF k > Len(items) THEN <<>>
  ELSE (IF items[k].tag = "PRTPAGE" THEN <<items[k].P>> ELSE items[k].pages)
       \o PrtPagesFrom(items, k + 1)

PrtPages(items) == PrtPagesFrom(items, 1)

\* type_element.xpath(f'.//{fr_type}'): the filings of the container
FilingsOf(container) == SelectSeq(container, LAMBDA x : x.tag = "RULE")

\* int(type_element.xpath('.//PRTPAGE/@P')[0]) raises ValueError, which the
\* except IndexError does not catch
StartPageRaises(container) ==
  PrtPages(container) # <<>> /\ ~IsDigitText(PrtPages(container)[1])

\* the try statement of lines 204-207
FirstStartPage(container) ==
  IF PrtPages(container) = <<>> THEN -1 ELSE IntOf(PrtPages(container)[1])

\* print_pages
PrintPages(doc_el) ==
  {IntOf(doc_el.pages[k]) : k \in {j \in 1..Len(doc_el.pages) : IsDigitText(doc_el.pages[j])}}

\* As EndPage with the last printed page of the filing for its end
EndPageLast(start, doc_el) ==
  IF PrintPages(doc_el) = {} THEN start
  ELSE IntOf(SelectSeq(doc_el.pages, IsDigitText)[Len(SelectSeq(doc_el.pages, IsDigitText))])

\* max([start_page] + print_pages)
EndPage(start, doc_el) ==
  CHOOSE m \in {start} \cup PrintPages(doc_el) :
    \A n \in {start} \cup PrintPages(doc_el) : n <= m

(***************************************************************************)
(* Specification SpecPages: iter_docs over one bounded container           *)
(***************************************************************************)
MaxItems == 3
MaxDocPages == 2

\* the values of the attribute P: two page numbers and a page that is no number
PageAttrs == {<<"7">>, <<"1", "2">>, <<"x">>}

\* what a container holds: PRTPAGE elements of its own, and filings with
\* the PRTPAGE elements inside them
ContainerItems ==
  {[tag |-> "PRTPAGE", P |-> p] : p \in PageAttrs}
  \cup {[tag |-> "RULE", pages |-> ps] :
          ps \in UNION {[1..n -> PageAttrs] : n \in 0..MaxDocPages}}

Containers == UNION {[1..n -> ContainerItems] : n \in 0..MaxItems}

InitPg ==
  /\ type_element \in Containers
  /\ start_page = 0 /\ pg_j = 0 /\ pg_docs = <<>> /\ pg_pc = "call"
  \* the other components are idle
  /\ sd_in = None /\ sd_in2 = None /\ sd_out = Pending /\ sd_out2 = Pending
  /\ sd_twice = Pending /\ sd_pc = "idle"
  /\ ex_parts = <<>> /\ ex_in = None /\ ex_out = Pending /\ ex_pc = "idle"
  /\ info_df = <<>> /\ doc_element = <<>> /\ doc_info = None
  /\ rs_out = Pending /\ rs_pc = "idle"
  /\ xml_docs = <<>> /\ force_update = FALSE /\ parsed_dir = <<>> /\ existing = {}
  /\ n_parsed = 0 /\ frdoc_counts = <<>> /\ failed = <<>> /\ doc_i = 0
  /\ mn_pc = "idle" /\ pass_no = 0 /\ parsed_dir0 = <<>> /\ writes = <<>>
  /\ xml_tree = <<>> /\ xp_call = 0 /\ split_paragraphs = FALSE
  /\ extract_numbering = FALSE /\ part_cfr_map = <<>> /\ paragraphs = <<>>
  /\ header = <<>> /\ part_element = 0 /\ xp_i = 0 /\ xp_pc = "idle"
  /\ parsed_dfs = <<>>
  /\ html_text = <<>> /\ html_numbering = FALSE /\ segments = <<>> /\ seg_i = 0
  /\ html_st = <<>> /\ html_pc = "idle"
  /\ retry_intervals = <<>> /\ wait_interval = 0 /\ check_json = FALSE /\ gw_i = 0
  /\ gw_r = None /\ gw_out = Pending /\ gw_depth = 0 /\ gw_slept = 0
  /\ gw_requests = 0 /\ gw_pc = "idle"
  /\ sn_in = None /\ sn_out = Pending /\ sn_pc = "idle"

\* iter_docs, lines 202-207: the start page of the container
ContainerStart ==
  /\ pg_pc = "call"
  /\ IF StartPageRaises(type_element)
     THEN /\ pg_pc' = "ValueError"
          /\ UNCHANGED <<start_page, pg_j>>
     ELSE /\ start_page' = FirstStartPage(type_element)
          /\ pg_j' = 1
          /\ pg_pc' = "loop"
  /\ UNCHANGED <<type_element, pg_docs, notPg>>

\* iter_docs, lines 209-242: one filing of the container is yielded
ContainerDoc ==
  /\ pg_pc = "loop"
  /\ pg_j <= Len(FilingsOf(type_element))
  /\ pg_docs' = Append(pg_docs,
       [start_page |-> start_page,
        end_page   |-> EndPage(start_page, FilingsOf(type_element)[pg_j])])
  /\ start_page' = EndPage(start_page, FilingsOf(type_element)[pg_j])
  /\ pg_j' = pg_j + 1
  /\ UNCHANGED <<type_element, pg_pc, notPg>>

\* the filings of the container are exhausted
ContainerEnd ==
  /\ pg_pc = "loop"
  /\ pg_j > Len(FilingsOf(type_element))
  /\ pg_pc' = "done"
  /\ UNCHANGED <<type_element, start_page, pg_j, pg_docs, notPg>>

NextPg == ContainerStart \/ ContainerDoc \/ ContainerEnd

SpecPages == InitPg /\ [][NextPg]_vars

(***************************************************************************)
(* get_with_retry (download/api.py)                                        *)
(***************************************************************************)
\* a response of requests.get: its status code, and whether r.json() parses
Response(status_code, json_ok) == <<"response", status_code, json_ok>>

IsResponse(r) == r[1] = "response"

StatusCode(r) == r[2]

JsonOk(r) == r[3]

\* r.ok: raise_for_status() does not raise
Ok(r) == ~(400 <= StatusCode(r) /\ StatusCode(r) < 600)

\* As RateLimited when a rate limit is an error like the others
RateLimitedNever(r, wait) == FALSE

\* "r.status_code == 429 and wait_interval > 0"
RateLimited(r, wait) == StatusCode(r) = 429 /\ wait > 0

\* "elif 400 <= r.status_code <= 500"
BadRequest(r) == 400 <= StatusCode(r) /\ StatusCode(r) <= 500

\* "if check_json: try: r.json() except Exception: continue"
JsonCorrupted(r, check) == check /\ ~JsonOk(r)

\* the loop is at one of the retry intervals, not yet in its else clause
InLoop(i, intervals) == i <= Len(intervals)

(***************************************************************************)
(* Specification SpecGet: one call of get_with_retry and a server          *)
(***************************************************************************)
MaxIntervals == 2
MaxRestarts == 2

\* the retry_intervals passed: the empty list of get() among them
IntervalLists == UNION {[1..n -> {1, 10}] : n \in 0..MaxIntervals}

\* what requests.get may come back with: a response with some status code,
\* or an exception; the server stops answering 429 after MaxRestarts restarts
StatusCodes(depth) == {200, 404, 500, 503} \cup (IF depth < MaxRestarts THEN {429} ELSE {})

Answers(depth) ==
  {Response(200, j) : j \in BOOLEAN}
  \cup {Response(c, FALSE) : c \in StatusCodes(depth) \ {200}}
  \cup {<<"ConnectionError">>, <<"ReadTimeout">>}

InitGw ==
  /\ retry_intervals \in IntervalLists
  /\ wait_interval \in {0, 60}
  /\ check_json \in BOOLEAN
  /\ gw_i = 0 /\ gw_r = None /\ gw_out = Pending /\ gw_depth = 0
  /\ gw_slept = 0 /\ gw_requests = 0
  /\ gw_pc = "call"
  \* the other components are idle
  /\ sd_in = None /\ sd_in2 = None /\ sd_out = Pending /\ sd_out2 = Pending
  /\ sd_twice = Pending /\ sd_pc = "idle"
  /\ ex_parts = <<>> /\ ex_in = None /\ ex_out = Pending /\ ex_pc = "idle"
  /\ info_df = <<>> /\ doc_element = <<>> /\ doc_info = None
  /\ rs_out = Pending /\ rs_pc = "idle"
  /\ xml_docs = <<>> /\ force_update = FALSE /\ parsed_dir = <<>> /\ existing = {}
  /\ n_parsed = 0 /\ frdoc_counts = <<>> /\ failed = <<>> /\ doc_i = 0
  /\ mn_pc = "idle" /\ pass_no = 0 /\ parsed_dir0 = <<>> /\ writes = <<>>
  /\ xml_tree = <<>> /\ xp_call = 0 /\ split_paragraphs = FALSE
  /\ extract_numbering = FALSE /\ part_cfr_map = <<>> /\ paragraphs = <<>>
  /\ header = <<>> /\ part_element = 0 /\ xp_i = 0 /\ xp_pc = "idle"
  /\ parsed_dfs = <<>>
  /\ html_text = <<>> /\ html_numbering = FALSE /\ segments = <<>> /\ seg_i = 0
  /\ html_st = <<>> /\ html_pc = "idle"
  /\ type_element = <<>> /\ start_page = 0 /\ pg_j = 0 /\ pg_docs = <<>> /\ pg_pc = "idle"
  /\ sn_in = None /\ sn_out = Pending /\ sn_pc = "idle"

\* line 65, "if retry_intervals:", of the first call and of every call the
\* function makes of itself; without intervals the body is skipped and the
\* function ends without a return statement
GetCall ==
  /\ gw_pc = "call"
  /\ IF retry_intervals = <<>>
     THEN /\ gw_out' = None
          /\ gw_pc' = "returned"
          /\ UNCHANGED gw_i
     ELSE /\ gw_i' = 1
          /\ gw_pc' = "request"
          /\ UNCHANGED gw_out
  /\ UNCHANGED <<retry_intervals, wait_interval, check_json, gw_r, gw_depth, gw_slept,
                 gw_requests, notGw>>

\* requests.get at line 68, inside the loop, and at line 104, in its else
\* clause: a ConnectionError inside the loop is slept on, any other
\* exception leaves the function
GetRequest ==
  /\ gw_pc = "request"
  /\ gw_requests' = gw_requests + 1
  /\ \E answer \in Answers(gw_depth) :
       IF IsResponse(answer)
       THEN /\ gw_r' = answer
            /\ gw_pc' = "response"
            /\ UNCHANGED <<gw_i, gw_out, gw_slept>>
       ELSE IF answer = <<"ConnectionError">> /\ InLoop(gw_i, retry_intervals)
            THEN /\ gw_slept' = retry_intervals[gw_i]
                 /\ gw_i' = gw_i + 1
                 /\ UNCHANGED <<gw_r, gw_out, gw_pc>>
            ELSE /\ gw_out' = answer
                 /\ gw_pc' = "raised"
                 /\ UNCHANGED <<gw_i, gw_r, gw_slept>>
  /\ UNCHANGED <<retry_intervals, wait_interval, check_json, gw_depth, notGw>>

\* lines 72-102: what the loop does with the response
LoopResponse ==
  IF Ok(gw_r)
  THEN IF JsonCorrupted(gw_r, check_json)
       THEN /\ gw_i' = gw_i + 1
            /\ gw_pc' = "request"
            /\ UNCHANGED <<gw_out, gw_depth, gw_slept>>
       ELSE /\ gw_out' = gw_r
            /\ gw_pc' = "returned"
            /\ UNCHANGED <<gw_i, gw_depth, gw_slept>>
  ELSE IF RateLimited(gw_r, wait_interval)
       THEN /\ gw_slept' = wait_interval
            /\ gw_depth' = gw_depth + 1
            /\ gw_pc' = "call"
            /\ UNCHANGED <<gw_i, gw_out>>
       ELSE IF BadRequest(gw_r)
            THEN /\ gw_out' = <<"HTTPError">>
                 /\ gw_pc' = "raised"
                 /\ UNCHANGED <<gw_i, gw_depth, gw_slept>>
            ELSE /\ gw_slept' = retry_intervals[gw_i]
                 /\ gw_i' = gw_i + 1
                 /\ gw_pc' = "request"
                 /\ UNCHANGED <<gw_out, gw_depth>>

\* lines 107-123: what the else clause of the loop does with the response
LastResponse ==
  IF RateLimited(gw_r, wait_interval)
  THEN /\ gw_slept' = wait_interval
       /\ gw_depth' = gw_depth + 1
       /\ gw_pc' = "call"
       /\ UNCHANGED <<gw_i, gw_out>>
  ELSE IF Ok(gw_r)
       THEN /\ gw_out' = gw_r
            /\ gw_pc' = "returned"
            /\ UNCHANGED <<gw_i, gw_depth, gw_slept>>
       ELSE /\ gw_out' = <<"HTTPError">>
            /\ gw_pc' = "raised"
            /\ UNCHANGED <<gw_i, gw_depth, gw_slept>>

GetResponse ==
  /\ gw_pc = "response"
  /\ IF InLoop(gw_i, retry_intervals) THEN LoopResponse ELSE LastResponse
  /\ UNCHANGED <<retry_intervals, wait_interval, check_json, gw_r, gw_requests, notGw>>

NextGw == GetCall \/ GetRequest \/ GetResponse

SpecGet == InitGw /\ [][NextGw]_vars

\* the interpreter goes on with the call, and requests.get and time.sleep
\* come back (timeout is a number in every call of the repository)
SpecGetFair == SpecGet /\ WF_vars(NextGw)

(***************************************************************************)
(* Properties                                                              *)
(***************************************************************************)
\* The candidates of each step of the cascade, as sets of registry rows
Rows(df) == {df[k] : k \in 1..Len(df)}

ExtractedOf(doc) ==
  IF HasFrdocString(doc) THEN extract_frdoc_number(doc.frdoc_string) ELSE None

ExactSetOf(df, e) == {row \in Rows(df) : e # None /\ row.frdoc_number = e}

ExactSet(df, doc) == ExactSetOf(df, ExtractedOf(doc))

StandardizedSetOf(df, se) ==
  {row \in Rows(df) : se # None /\ standardize_frdoc_number(row.frdoc_number) = se}

StandardizedSet(df, doc) ==
  StandardizedSetOf(df, standardize_frdoc_number(ExtractedOf(doc)))

CitationSet(df, doc) ==
  {row \in Rows(df) :
     /\ row.publication_date = doc.publication_date /\ row.volume = doc.volume
     /\ row.start_page = doc.start_page /\ row.end_page = doc.end_page}

SubstringSet(df, doc) ==
  {row \in CitationSet(df, doc) :
     /\ HasFrdocString(doc)
     /\ IsSubstring(NoSpace(row.frdoc_number), NoSpace(doc.frdoc_string))}

StepSets(df, doc) ==
  {ExactSet(df, doc), StandardizedSet(df, doc), CitationSet(df, doc), SubstringSet(df, doc)}

\* C1: the resolver returns an id only when some step of the cascade produced
\* exactly one candidate, and then that candidate's id; when every step yields
\* zero or several candidates it returns None, never one of the tied ones.
NeverGuesses(steps, out) ==
  /\ out # None =>
       \E cands \in steps :
          Cardinality(cands) = 1 /\ \A row \in cands : out = row.frdoc_number
  /\ (\A cands \in steps : Cardinality(cands) # 1) => out = None

C1_NeverGuesses ==
  rs_pc = "done" => NeverGuesses(StepSets(info_df, doc_info), rs_out)

\* C1's case: two rows tie on the FR citation, no step singles one out, None
C1_Witness ==
  /\ rs_pc = "done"
  /\ Cardinality(CitationSet(info_df, doc_info)) = 2
  /\ HasFrdocString(doc_info)
  /\ \A cands \in StepSets(info_df, doc_info) : Cardinality(cands) # 1
  /\ rs_out = None

\* C2: when neither the exact nor the standardized step resolves the filing
\* and exactly one registry row has the filing's publication_date, volume,
\* start_page and end_page, the resolver returns that row's id.
C2_CitationMatch ==
  ( /\ rs_pc = "done"
    /\ ExactSet(info_df, doc_info) = {}
    /\ Cardinality(StandardizedSet(info_df, doc_info)) # 1
    /\ Cardinality(CitationSet(info_df, doc_info)) = 1 )
  => \A row \in CitationSet(info_df, doc_info) : rs_out = row.frdoc_number

\* C2's case: a corrupted citation string, two rows, one with the filing's citation
C2_Witness ==
  /\ rs_pc = "done"
  /\ HasFrdocString(doc_info) /\ ExtractedOf(doc_info) = None
  /\ Len(info_df) = 2
  /\ Cardinality(CitationSet(info_df, doc_info)) = 1
  /\ \A row \in CitationSet(info_df, doc_info) : rs_out = row.frdoc_number

\* C3 (as claimed): "2005-0034", "05-0034" and "2005-34" standardize to the
\* same text.
C3_ThreeReprsAgree ==
  (sd_pc = "done" /\ sd_in \in ThreeReprs) => sd_out = sd_out2

\* C4: standardize_frdoc_number is idempotent: standardizing a standardized
\* identifier changes nothing.
C4_Idempotent ==
  sd_pc = "done" => sd_twice = sd_out

\* C4's case: an identifier the first pass changed
C4_Witness ==
  sd_pc = "done" /\ sd_in # None /\ sd_out # sd_in /\ sd_out # <<>> /\ sd_twice = sd_out

\* the citation string is "[FR Doc. {Y}-{N} Filed ...]"
StandardForm(parts) ==
  /\ parts.pre = StdPrefix
  /\ parts.sep = <<"-">>
  /\ Len(parts.suf) >= 6 /\ SubSeq(parts.suf, 1, 6) = <<" ", "F", "i", "l", "e", "d">>

\* C5: from "[FR Doc. {Y}-{N} Filed ...]", Y and N non-empty digit strings,
\* extract_frdoc_number returns exactly "{Y}-{N}" (uppercased).
C5_ExtractRoundTrip ==
  (ex_pc = "done" /\ StandardForm(ex_parts))
    => ex_out = StrUpper(ex_parts.y \o <<"-">> \o ex_parts.n)

\* C5's case: a standard citation with a two-digit year and number, extracted
C5_Witness ==
  /\ ex_pc = "done" /\ StandardForm(ex_parts)
  /\ Len(ex_parts.y) = 2 /\ Len(ex_parts.n) = 2
  /\ ex_out = ex_parts.y \o <<"-">> \o ex_parts.n

\* the records of df that come from the element with this path
RecordsOfPath(df, path) == SelectSeq(df, LAMBDA r : r.xml_path = path)

\* the element of the tree that has this path
ElementOfPath(tree, path) == CHOOSE i \in 1..Len(tree) : getpath(tree, i) = path

\* C6: with numbering extraction off, the texts of the records that the
\* split run produces from one element, concatenated in order, are the text
\* of that element (the text of its one record in the unsplit run), and so
\* the text column of the whole document concatenates to the same text in
\* both runs.  The split of parse/parsers.py reassembles to the same text.
C6_SplitRoundTrip ==
  Len(parsed_dfs) = 3 =>
    /\ \A k \in 1..Len(parsed_dfs[3]) :
         /\ parsed_dfs[3][k].text =
              get_element_text(xml_tree, ElementOfPath(xml_tree, parsed_dfs[3][k].xml_path))
         /\ JoinTexts(RecordsOfPath(parsed_dfs[2], parsed_dfs[3][k].xml_path), 1)
              = parsed_dfs[3][k].text
    /\ \A k \in 1..Len(parsed_dfs[3]) :
         StrJoin(ParTextsParsers(parsed_dfs[3][k].text), <<>>) = parsed_dfs[3][k].text
    /\ \A k \in 1..Len(parsed_dfs[2]) :
         RecordsOfPath(parsed_dfs[3], parsed_dfs[2][k].xml_path) # <<>>
    /\ JoinTexts(parsed_dfs[2], 1) = JoinTexts(parsed_dfs[3], 1)
    /\ xp_pc # "AssertionError"

\* C6's case: the assertion of parse_test passed on a document one of whose
\* elements was split into several records, a blank line among them
C6_Witness ==
  /\ xp_pc = "verified"
  /\ \E k \in 1..Len(parsed_dfs[3]) :
       /\ Len(RecordsOfPath(parsed_dfs[2], parsed_dfs[3][k].xml_path)) > 2
       /\ \E j \in 1..Len(parsed_dfs[2]) :
            /\ parsed_dfs[2][j].xml_path = parsed_dfs[3][k].xml_path
            /\ parsed_dfs[2][j].text = NL

\* the document has one preamble CFR citation and one PART, and the walk of
\* the parser is under way
TrivialCase ==
  /\ xp_pc = "walk"
  /\ Len(DocCfrs(xml_tree)) = 1
  /\ Len(PartElements(xml_tree)) = 1

\* record r comes from an element inside the document's first PART
FromThePart(r) ==
  \E j \in 1..Len(iterdescendants(xml_tree, PartElements(xml_tree)[1])) :
    iterdescendants(xml_tree, PartElements(xml_tree)[1])[j]
      = ElementOfPath(xml_tree, r.xml_path)

\* record r carries the CFR title and part cfr
Carries(r, cfr) == r.cfr_title = cfr[1] /\ r.cfr_part = cfr[2]

\* C7 (as claimed): with exactly one preamble CFR citation and exactly one
\* PART, every record produced from the nodes of that PART carries the
\* citation's CFR title and part.
C7_EveryRecordOfThePart ==
  TrivialCase =>
    \A k \in 1..Len(paragraphs) :
      FromThePart(paragraphs[k]) => Carries(paragraphs[k], DocCfrs(xml_tree)[1])

\* what the records of the PART carry, by where their element sits
CfrExpected(r) ==
  IF get_ancestor(xml_tree, ElementOfPath(xml_tree, r.xml_path), TagREGTEXT) # NoElement
  THEN <<xml_tree[get_ancestor(xml_tree, ElementOfPath(xml_tree, r.xml_path), TagREGTEXT)].TITLE,
         xml_tree[get_ancestor(xml_tree, ElementOfPath(xml_tree, r.xml_path), TagREGTEXT)].PART>>
  ELSE IF \E tag \in {TagSECTION, TagAMDPAR, TagEXTRACT, TagSUBPART} :
            IsSubstring(tag, r.xml_path)
       THEN DocCfrs(xml_tree)[1]
       ELSE <<NaN, NaN>>

\* C7 (amended): with exactly one preamble CFR citation and exactly one PART,
\* a record produced from a node of that PART carries the citation's CFR
\* title and part when the node has no REGTEXT ancestor and its path holds
\* SECTION, AMDPAR, EXTRACT or SUBPART; under a REGTEXT it carries the
\* REGTEXT's TITLE and PART attributes; any other record of the PART carries
\* no CFR title or part.
C7_LegalRecordsOfThePart ==
  TrivialCase =>
    \A k \in 1..Len(paragraphs) :
      FromThePart(paragraphs[k]) => Carries(paragraphs[k], CfrExpected(paragraphs[k]))

\* C7's case: the walk is over in the trivial case; a record of a section of
\* the PART carries the citation, the PART's own header carries none and a
\* record under the REGTEXT carries the REGTEXT's attributes
C7_Witness ==
  /\ TrivialCase
  /\ xp_i > Len(xml_tree)
  /\ DocCfrs(xml_tree)[1] = <<<<"1", "2">>, <<"5">>>>
  /\ \E k \in 1..Len(paragraphs) :
       /\ FromThePart(paragraphs[k])
       /\ paragraphs[k].tag = TagP
       /\ Carries(paragraphs[k], <<<<"1", "2">>, <<"5">>>>)
  /\ \E k \in 1..Len(paragraphs) :
       /\ FromThePart(paragraphs[k])
       /\ paragraphs[k].tag = TagHD
       /\ Carries(paragraphs[k], <<NaN, NaN>>)
  /\ \E k \in 1..Len(paragraphs) :
       /\ FromThePart(paragraphs[k])
       /\ paragraphs[k].tag = TagAMDPAR
       /\ Carries(paragraphs[k], <<<<"1", "2">>, <<"7">>>>)

\* lines i..j of the text are a block: a dashed rule first and last, and
\* between them at least one line, each blank, indented or mostly not letters
IsBlock(lines, i, j) ==
  /\ j >= i + 2
  /\ line_code(lines[i]) = "-"
  /\ line_code(lines[j]) = "-"
  /\ \A k \in (i + 1)..(j - 1) : line_code(lines[k]) \in {" ", "c", "."}

\* the indices of the records of tag GPOTABLE, or of another tag, whose text
\* holds the text b
RecordsHolding(records, b, tables) ==
  {k \in 1..Len(records) :
     /\ (records[k].tag = TagGPOTABLE) = tables
     /\ IsSubstring(b, records[k].text)}

\* C8 (as claimed): a block of at least 3 lines that begins and ends with a
\* dashed rule and whose interior lines are blank, indented or mostly
\* non-alphabetic comes out as exactly one GPOTABLE record holding the whole
\* block and in no paragraph record, wherever it sits in the text, its very
\* start included.
C8_BlockIsOneTable ==
  html_pc = "done" =>
    \A i, j \in 1..Len(StrSplit(html_text, "\n")) :
      IsBlock(StrSplit(html_text, "\n"), i, j) =>
        /\ Cardinality(RecordsHolding(html_st.records,
                                      JoinLines(StrSplit(html_text, "\n"), i, j + 1), TRUE)) = 1
        /\ RecordsHolding(html_st.records,
                          JoinLines(StrSplit(html_text, "\n"), i, j + 1), FALSE) = {}

\* the to_pickle calls of the run write each identifier from one filing only
OneWriterPerId ==
  \A a, b \in 1..Len(writes) : writes[a].frdoc = writes[b].frdoc => a = b

\* C9 (as claimed): within one pass, with or without force_update, the output
\* of an identifier is written from at most one filing; a later filing
\* resolving to it does not overwrite the output of the first.
C9_FirstFilingKept ==
  /\ OneWriterPerId
  /\ \A a \in 1..Len(writes) :
       parsed_dir[FileName(writes[a].frdoc)] = writes[a].doc_tree

\* C10: without force_update no identifier that has an output file when the
\* pass starts is written again, each identifier is written at most once,
\* and the pass run a second time writes nothing and leaves the directory
\* as it found it.
C10_RerunWritesNothing ==
  ~force_update =>
    /\ \A a \in 1..Len(writes) : FileName(writes[a].frdoc) \notin DOMAIN parsed_dir0
    /\ OneWriterPerId
    /\ pass_no > 1 => (writes = <<>> /\ parsed_dir = parsed_dir0)

\* C10's case: the second run is over; the first run wrote a file for an
\* identifier that two of its filings resolved to
C10_Witness ==
  /\ ~force_update /\ pass_no = 2 /\ mn_pc = "done"
  /\ \E id \in DOMAIN frdoc_counts :
       frdoc_counts[id] > 1 /\ parsed_dir[FileName(id)] # OldTree
  /\ writes = <<>> /\ parsed_dir = parsed_dir0

\* the filings of the pass that the loop has dealt with, by position
Encountered == 1..(doc_i - 1)

\* the filing at position k resolves to an identifier
Resolves(k) == Truthy(FrdocResolver(info_df, xml_docs[k]))

\* how often doc is in the list
TimesIn(list, doc) == Cardinality({a \in 1..Len(list) : list[a] = doc})

StepTaken == FrdocResolverCall(info_df, doc_info).step

\* the ids of a set of registry rows
IdsOf(rows) == {row.frdoc_number : row \in rows}

\* C12: when the identifier extracted from the citation string is a registry
\* id, the resolver returns it, at the exact step, whatever the filing's FR
\* citation is and whatever the later steps would select.
C12_ExactFirst ==
  (rs_pc = "done" /\ ExactSet(info_df, doc_info) # {}) =>
    /\ rs_out = ExtractedOf(doc_info)
    /\ StepTaken = "exact"

\* C12's case: the extracted identifier is the id of a row with another FR
\* citation, the filing's FR citation is that of exactly one other row, and
\* the extracted identifier is returned
C12_Witness ==
  /\ rs_pc = "done"
  /\ ExactSet(info_df, doc_info) # {}
  /\ ExactSet(info_df, doc_info) \cap CitationSet(info_df, doc_info) = {}
  /\ Cardinality(CitationSet(info_df, doc_info)) = 1
  /\ rs_out = ExtractedOf(doc_info)
  /\ rs_out \notin IdsOf(CitationSet(info_df, doc_info))

\* C13: when the extracted identifier is no registry id, the standardized
\* step decides the call exactly when one registry row standardizes to the
\* standardized extracted identifier, and then returns that row's id; with no
\* such row or several the call goes on to the FR citation search.
C13_StandardizedUnique ==
  (rs_pc = "done" /\ HasFrdocString(doc_info) /\ ExactSet(info_df, doc_info) = {}) =>
    /\ StepTaken = "standardized" <=> Cardinality(StandardizedSet(info_df, doc_info)) = 1
    /\ Cardinality(StandardizedSet(info_df, doc_info)) = 1 =>
         rs_out \in IdsOf(StandardizedSet(info_df, doc_info))
    /\ Cardinality(StandardizedSet(info_df, doc_info)) # 1 =>
         /\ StepTaken \in {"citation", "substring", "unresolved"}
         /\ Cardinality(CitationSet(info_df, doc_info)) = 1 =>
              (StepTaken = "citation" /\ rs_out \in IdsOf(CitationSet(info_df, doc_info)))

\* C13's case: two rows standardize to the standardized extracted identifier,
\* which is the id of neither; one of them has the filing's FR citation and
\* is returned by the FR citation search
C13_Witness ==
  /\ rs_pc = "done" /\ HasFrdocString(doc_info)
  /\ ExtractedOf(doc_info) # None
  /\ ExactSet(info_df, doc_info) = {}
  /\ Cardinality(StandardizedSet(info_df, doc_info)) = 2
  /\ Cardinality(CitationSet(info_df, doc_info)) = 1
  /\ StepTaken = "citation"
  /\ rs_out \in IdsOf(CitationSet(info_df, doc_info))

\* C14: when the earlier steps do not decide the call, several rows have the
\* filing's FR citation and the filing has a citation string, the call
\* returns the id of the one row among them whose id (whitespace removed) is
\* within the citation string (whitespace removed), and None when no such row
\* or several exist; a row without the filing's FR citation is never returned.
C14_SubstringRefinement ==
  ( /\ rs_pc = "done" /\ HasFrdocString(doc_info)
    /\ ExactSet(info_df, doc_info) = {}
    /\ Cardinality(StandardizedSet(info_df, doc_info)) # 1
    /\ Cardinality(CitationSet(info_df, doc_info)) > 1 ) =>
    /\ IF Cardinality(SubstringSet(info_df, doc_info)) = 1
       THEN StepTaken = "substring" /\ rs_out \in IdsOf(SubstringSet(info_df, doc_info))
       ELSE StepTaken = "unresolved" /\ rs_out = None
    /\ rs_out # None => rs_out \in IdsOf(CitationSet(info_df, doc_info))

\* the rows whose id is within the citation string, whatever their FR citation
WithinString(df, doc) ==
  {row \in Rows(df) : IsSubstring(NoSpace(row.frdoc_number), NoSpace(doc.frdoc_string))}

\* C14's case: two rows have the filing's FR citation, the id of one of them
\* is within the citation string and is returned; a third row, with another FR
\* citation, is not in the running
C14_Witness ==
  /\ rs_pc = "done" /\ HasFrdocString(doc_info)
  /\ ExactSet(info_df, doc_info) = {}
  /\ Len(info_df) = 3
  /\ Cardinality(CitationSet(info_df, doc_info)) = 2
  /\ Cardinality(SubstringSet(info_df, doc_info)) = 1
  /\ StepTaken = "substring"
  /\ rs_out \in IdsOf(SubstringSet(info_df, doc_info))

\* C15: a filing element with no FRDOC child or with several is yielded with
\* frdoc_string None; the resolver then returns the id of the one row that
\* has the filing's publication date, volume, start page and end page, and
\* None when no row or several have them.
C15_NullCitationString ==
  (rs_pc \in {"yielded", "done"} /\ Len(doc_element.FRDOC) # 1) =>
    /\ doc_info.frdoc_string = None
    /\ rs_pc = "done" =>
         IF Cardinality(CitationSet(info_df, doc_info)) = 1
         THEN StepTaken = "citation" /\ rs_out \in IdsOf(CitationSet(info_df, doc_info))
         ELSE StepTaken = "unresolved" /\ rs_out = None

\* C15's case: the filing has two FRDOC children, the first naming the id of
\* a row with another FR citation; the row with the filing's FR citation is
\* returned
C15_Witness ==
  /\ rs_pc = "done"
  /\ Len(doc_element.FRDOC) = 2
  /\ extract_frdoc_number(FrdocStringOfFirst(doc_element.FRDOC)) \in IdsOf(Rows(info_df))
  /\ Cardinality(CitationSet(info_df, doc_info)) = 1
  /\ rs_out \in IdsOf(CitationSet(info_df, doc_info))
  /\ rs_out # extract_frdoc_number(FrdocStringOfFirst(doc_element.FRDOC))

\* C16: standardize_frdoc_number never raises: for None, for the empty string,
\* for strings without a digit or without a dash and for every other
\* identifier, each call comes back with a value.
C16_NeverRaises ==
  /\ sd_pc \in {"first", "second", "done"} => sd_out # TypeError
  /\ sd_pc \in {"second", "done"} => sd_out2 # TypeError
  /\ sd_pc = "done" => sd_twice # TypeError

\* C16's case: the call on None, where re.sub raised inside the try block,
\* came back with None
C16_Witness ==
  /\ sd_pc = "done" /\ sd_in = None
  /\ TryException(sd_in) = "TypeError"
  /\ sd_out = None

\* C17 (as claimed): whenever an exception occurs inside
\* standardize_frdoc_number, the value returned is the input exactly as it
\* was passed in.
C17_FallbackIsInput ==
  (sd_pc = "done" /\ TryException(sd_in) # "none") => sd_out = sd_in

\* the matches of Case 1 and of Case 2 in the citation string
MatchA(s) == ReSearch(PatternA, FrGroups, s)

MatchB(s) == ReSearch(PatternB, FrGroups, s)

\* Case 1 matched, and matched at least 3 characters
UsesA(s) == MatchA(s).ok /\ Len(Group0(MatchA(s), s)) >= 3

C18_FallbackTaken ==
  /\ ex_pc = "done"
  /\ ~MatchA(ex_in).ok /\ MatchB(ex_in).ok
  /\ ex_out = RebuildFrdoc(MatchB(ex_in), ex_in)

\* neither pattern matches the citation string and None is returned
C18_NeitherMatches ==
  /\ ex_pc = "done"
  /\ ~MatchA(ex_in).ok /\ ~MatchB(ex_in).ok
  /\ ex_out = None

\* the SOURCE attribute names a level: it is absent (read as HED), HED, or HDn
NamesLevel(e) ==
  \/ e.SOURCE = None
  \/ e.SOURCE = <<"H", "E", "D">>
  \/ Len(e.SOURCE) = 3 /\ e.SOURCE[1] = "H" /\ e.SOURCE[2] = "D" /\ e.SOURCE[3] \in Digits

\* the nesting level L the SOURCE attribute gives: 1 for HED, n + 1 for HDn
SourceLevel(e) ==
  IF e.SOURCE = None \/ e.SOURCE = <<"H", "E", "D">> THEN 1
  ELSE (CHOOSE n \in 0..9 : DigitText[n + 1] = e.SOURCE[3]) + 1

\* the header path new is the path old after a header of level L and this text
NestedUnder(old, new, L, text) ==
  /\ Len(new) = L
  /\ new[L] = text
  /\ \A k \in 1..(L - 1) : new[k] = (IF k <= Len(old) THEN old[k] ELSE <<>>)

\* C19: when the walk passes a header element whose SOURCE gives level L, the
\* header path after it has exactly L entries, the last one the header's
\* text, the entries above level L as they were (empty strings where the path
\* had to grow) and nothing of the old path at level L or deeper; the records
\* of the header element carry that path.
C19_HeaderPath ==
  [][ ( /\ xp_pc = "walk" /\ xp_i <= Len(xml_tree)
        /\ xml_tree[xp_i].tag = TagHD /\ NamesLevel(xml_tree[xp_i])
        /\ xp_pc' = "walk" )
      => /\ NestedUnder(header, header', SourceLevel(xml_tree[xp_i]), itertext(xml_tree, xp_i))
         /\ Len(paragraphs') > Len(paragraphs)
         /\ \A k \in (Len(paragraphs) + 1)..Len(paragraphs') : paragraphs'[k].header = header'
    ]_vars

\* the element the walk has just passed
JustPassed == xp_i - 1

\* C19's case: the walk has just passed a header of level 2 that follows a
\* header of level 4; the path has the two entries "g" and "k", the entries
\* "i", "" and "j" of levels 2, 3 and 4 are gone
C19_Witness ==
  /\ xp_pc = "walk" /\ JustPassed >= 1
  /\ xml_tree[JustPassed].tag = TagHD
  /\ SourceLevel(xml_tree[JustPassed]) = 2
  /\ \E j \in 1..(JustPassed - 1) :
       xml_tree[j].tag = TagHD /\ NamesLevel(xml_tree[j]) /\ SourceLevel(xml_tree[j]) = 4
  /\ header = << <<"g">>, <<"k">> >>
  /\ paragraphs[Len(paragraphs)].header = header

\* the element a record comes from
ElementOf(r) == ElementOfPath(xml_tree, r.xml_path)

\* the path of the record holds SECTION, AMDPAR, EXTRACT or SUBPART
PathHasMarker(r) ==
  \E tag \in {TagSECTION, TagAMDPAR, TagEXTRACT, TagSUBPART} : IsSubstring(tag, r.xml_path)

UnderRegtext(r) == get_ancestor(xml_tree, ElementOf(r), TagREGTEXT) # NoElement

\* the element of the record is inside a PART element
DescendsFromPart(r) == get_ancestor(xml_tree, ElementOf(r), TagPART) # NoElement

\* a PART element comes before the element of the record in document order
FollowsPart(r) == \E j \in 1..(ElementOf(r) - 1) : xml_tree[j].tag = TagPART

\* C20 (as claimed): a record is legal exactly when its node has a REGTEXT
\* ancestor, or descends from a PART node and has SECTION, AMDPAR, EXTRACT or
\* SUBPART in its path; a node after a PART that is no descendant of it is
\* not legal.
C20_LegalByDescent ==
  \A k \in 1..Len(paragraphs) :
    paragraphs[k].legal =
      (UnderRegtext(paragraphs[k]) \/ (DescendsFromPart(paragraphs[k]) /\ PathHasMarker(paragraphs[k])))

\* C20 (amended): a record is legal exactly when its node has a REGTEXT
\* ancestor, or some PART node comes before it in document order, whether or
\* not the node is inside that PART, and its path has SECTION, AMDPAR,
\* EXTRACT or SUBPART in it.
C20_LegalByPrecedingPart ==
  \A k \in 1..Len(paragraphs) :
    paragraphs[k].legal =
      (UnderRegtext(paragraphs[k]) \/ (FollowsPart(paragraphs[k]) /\ PathHasMarker(paragraphs[k])))

\* C20's case: the walk is over; a paragraph of an EXTRACT that follows the
\* PART and is outside of it is legal, a paragraph after the PART with no
\* marker in its path is not, and a paragraph of a section with no PART before
\* it is not
C20_Witness ==
  /\ xp_pc = "walk" /\ xp_i > Len(xml_tree)
  /\ \E k \in 1..Len(paragraphs) :
       /\ FollowsPart(paragraphs[k]) /\ ~DescendsFromPart(paragraphs[k])
       /\ ~UnderRegtext(paragraphs[k]) /\ PathHasMarker(paragraphs[k])
       /\ paragraphs[k].legal
  /\ \E k \in 1..Len(paragraphs) :
       /\ FollowsPart(paragraphs[k]) /\ ~DescendsFromPart(paragraphs[k])
       /\ ~PathHasMarker(paragraphs[k])
       /\ ~paragraphs[k].legal
  /\ \E k \in 1..Len(paragraphs) :
       /\ DescendsFromPart(paragraphs[k]) /\ PathHasMarker(paragraphs[k])
       /\ ~UnderRegtext(paragraphs[k])
       /\ paragraphs[k].legal

\* build_part_cfr_map has returned and the parser works from part_cfr_map
MapBuilt == xp_pc = "walk"

\* the document is outside the two first branches of build_part_cfr_map
NonTrivialCase ==
  /\ ~(DocCfrs(xml_tree) = <<>> /\ PartElements(xml_tree) = <<>>)
  /\ ~(Len(DocCfrs(xml_tree)) = 1 /\ Len(PartElements(xml_tree)) = 1)

\* the PART elements of the document
Parts == {PartElements(xml_tree)[j] : j \in 1..Len(PartElements(xml_tree))}

\* part element p has a CFR from its List of Subjects
HasLstsubCfr(p) == p \in DOMAIN build_lstsub_cfr_map(xml_tree)

\* part element p has a part number in its first header
HasHeaderPart(p) == p \in DOMAIN build_header_part_map(xml_tree)

\* C21: in the non-trivial case a PART that has a CFR from its List of
\* Subjects and a part number in its header is mapped to the (title, part) of
\* the List of Subjects, also when the header names another part.
C21_LstsubPreferred ==
  (MapBuilt /\ NonTrivialCase) =>
    \A p \in Parts :
      (HasLstsubCfr(p) /\ HasHeaderPart(p)) =>
        part_cfr_map[p] = build_lstsub_cfr_map(xml_tree)[p]

\* C21's case: the List of Subjects gives a PART the CFR (12, 7), its header
\* says "Part 9", and the PART is mapped to (12, 7); the records of the PART
\* carry it
C21_Witness ==
  /\ MapBuilt /\ NonTrivialCase /\ xp_i > Len(xml_tree)
  /\ \E p \in Parts :
       /\ HasLstsubCfr(p) /\ HasHeaderPart(p)
       /\ build_lstsub_cfr_map(xml_tree)[p] = << <<"1", "2">>, <<"7">> >>
       /\ build_header_part_map(xml_tree)[p] = <<"9">>
       /\ part_cfr_map[p] = << <<"1", "2">>, <<"7">> >>
       /\ \E k \in 1..Len(paragraphs) :
            /\ get_ancestor(xml_tree, ElementOf(paragraphs[k]), TagPART) = p
            /\ paragraphs[k].tag = TagAMDPAR
            /\ Carries(paragraphs[k], << <<"1", "2">>, <<"7">> >>)

\* the titles of the document-level CFRs that cite the part number of p's header
TitlesFor(p) == PotentialTitles(DocCfrs(xml_tree), build_header_part_map(xml_tree)[p])

\* the three statements of C22 about part element p
NullWithoutSource(p) ==
  (~HasLstsubCfr(p) /\ ~HasHeaderPart(p)) => part_cfr_map[p] = <<NaN, NaN>>

NullUnlessOneTitle(p) ==
  (~HasLstsubCfr(p) /\ HasHeaderPart(p) /\ Cardinality(TitlesFor(p)) # 1) =>
    part_cfr_map[p][1] = NaN

NeverOneOfSeveral(p) ==
  (~HasLstsubCfr(p) /\ HasHeaderPart(p) /\ Cardinality(TitlesFor(p)) > 1) =>
    part_cfr_map[p][1] \notin TitlesFor(p)

\* the header of p has the placeholder "_" for a part number
PlaceholderPart(p) == HasHeaderPart(p) /\ build_header_part_map(xml_tree)[p] = <<"_">>

\* C22 as stated, read for the branch of build_part_cfr_map it is about: a
\* PART with neither a CFR from the List of Subjects nor a part number in its
\* header is mapped to (null, null); a PART whose header part number matches
\* zero or several distinct document-level titles gets a null title; no title
\* is picked out of several.
C22_NullTitle ==
  (MapBuilt /\ NonTrivialCase) =>
    \A p \in Parts : NullWithoutSource(p) /\ NullUnlessOneTitle(p) /\ NeverOneOfSeveral(p)

\* C22 as the code has it: the same, except that a header with the
\* placeholder "_" for a part number gives the title "_" in place of null.
C22_NullTitleNonTrivial ==
  (MapBuilt /\ NonTrivialCase) =>
    \A p \in Parts :
      /\ NullWithoutSource(p)
      /\ NeverOneOfSeveral(p)
      /\ ~PlaceholderPart(p) => NullUnlessOneTitle(p)
      /\ (~HasLstsubCfr(p) /\ PlaceholderPart(p)) => part_cfr_map[p] = << <<"_">>, <<"_">> >>

\* C22's cases in one document: part 5 is cited under the titles 12 and 40
\* and the PART headed "Part 5" has a null title, the PART headed "Part _"
\* has the title "_", the PART without a header has (null, null)
C22_Witness ==
  /\ MapBuilt /\ NonTrivialCase
  /\ \E p, q, r \in Parts :
       /\ ~HasLstsubCfr(p) /\ HasHeaderPart(p)
       /\ TitlesFor(p) = {<<"1", "2">>, <<"4", "0">>}
       /\ part_cfr_map[p] = <<NaN, <<"5">> >>
       /\ ~HasLstsubCfr(q) /\ PlaceholderPart(q) /\ TitlesFor(q) = {}
       /\ part_cfr_map[q][1] = <<"_">>
       /\ ~HasLstsubCfr(r) /\ ~HasHeaderPart(r)
       /\ part_cfr_map[r] = <<NaN, NaN>>

\* the text of record r before its numbering was taken off
TextWithNumbering(r) == IF r.numbering = NaN THEN r.text ELSE r.numbering \o r.text

\* the position of the first record of the element of paragraphs[k]
FirstOfElement(k) ==
  CHOOSE f \in 1..k :
    /\ paragraphs[f].xml_path = paragraphs[k].xml_path
    /\ \A g \in 1..(f - 1) : paragraphs[g].xml_path # paragraphs[k].xml_path

\* the units the text of the element of record r is split into
UnitsOf(r) == ParTexts(get_element_text(xml_tree, ElementOf(r)), split_paragraphs)

\* C23: the records follow the pre-order of their source elements, and the
\* records of one element are consecutive and hold its units in text order.
C23_ReadingOrder ==
  /\ \A k, l \in 1..Len(paragraphs) :
       k < l => ElementOf(paragraphs[k]) <= ElementOf(paragraphs[l])
  /\ \A k \in 1..Len(paragraphs) :
       /\ k - FirstOfElement(k) + 1 <= Len(UnitsOf(paragraphs[k]))
       /\ TextWithNumbering(paragraphs[k]) =
            UnitsOf(paragraphs[k])[k - FirstOfElement(k) + 1]

\* C23's case: the walk is over, two elements gave records, the later one
\* several units of which the first two differ
C23_Witness ==
  /\ xp_pc = "walk" /\ xp_i > Len(xml_tree) /\ split_paragraphs
  /\ \E k \in 1..Len(paragraphs) :
       /\ k + 2 <= Len(paragraphs)
       /\ ElementOf(paragraphs[k]) < ElementOf(paragraphs[k + 1])
       /\ ElementOf(paragraphs[k + 1]) = ElementOf(paragraphs[k + 2])
       /\ Len(UnitsOf(paragraphs[k + 1])) >= 2
       /\ paragraphs[k + 1].text = UnitsOf(paragraphs[k + 1])[1]
       /\ paragraphs[k + 2].text = UnitsOf(paragraphs[k + 1])[2]
       /\ paragraphs[k + 1].text # paragraphs[k + 2].text

\* the lines of html_text and the table matches split_tables finds in them
TextLines == StrSplit(html_text, "\n")

TableMatches == ReFindIter(TablePattern, {}, LineCodes(TextLines), 1, 0)

\* the spans of lines split_tables yields, in the order it yields them: for
\* every match lines[:start] and lines[start:end], then lines[end:]
SpansOf(lines, ms) ==
  IF ms = <<>> THEN <<lines>>
  ELSE [k \in 1..(2 * Len(ms)) |->
          IF k % 2 = 1 THEN Slice(lines, 1, ms[(k + 1) \div 2].start)
          ELSE Slice(lines, ms[k \div 2].start, ms[k \div 2].end)]
       \o (IF ms[Len(ms)].end <= Len(lines)
           THEN <<Slice(lines, ms[Len(ms)].end, Len(lines) + 1)>>
           ELSE <<>>)

\* the spans one after the other
RECURSIVE ConcatSpans(_, _)
ConcatSpans(spans, k) ==
  IF k > Len(spans) THEN <<>> ELSE spans[k] \o ConcatSpans(spans, k + 1)

\* the segments are the spans, joined
SegmentsAreSpans ==
  \A k \in 1..Len(segments) :
    /\ segments[k][1] = StrJoin(SpansOf(TextLines, TableMatches)[2 * k - 1], NL)
    /\ 2 * k <= Len(SpansOf(TextLines, TableMatches)) =>
         segments[k][2] = StrJoin(SpansOf(TextLines, TableMatches)[2 * k], NL)

\* C24: the spans split_tables yields partition the lines of the text: one
\* after the other they are the lines of the text, each line once, in order,
\* with any number of tables.
C24_SpansPartition ==
  html_pc # "call" =>
    /\ SegmentsAreSpans
    /\ ConcatSpans(SpansOf(TextLines, TableMatches), 1) = TextLines

\* with one table at most the spans are the lines of the text
C24_OneTablePartition ==
  (html_pc # "call" /\ Len(TableMatches) <= 1) =>
    /\ SegmentsAreSpans
    /\ ConcatSpans(SpansOf(TextLines, TableMatches), 1) = TextLines

\* two tables are found and the lines up to the second table are yielded again
C24_TwoTables ==
  /\ html_pc = "done" /\ Len(TableMatches) = 2
  /\ Len(ConcatSpans(SpansOf(TextLines, TableMatches), 1)) > Len(TextLines)

\* the tags a record of extract_html_paragraphs may carry
HtmlTags ==
  {TagP, TagAMDPAR, TagSECTION, <<"S", "T", "A", "R", "S">>, TagEXTRACT, TagHD, TagGPOTABLE}

\* C25: every record extract_html_paragraphs yields carries one of the tags
\* P, AMDPAR, SECTION, STARS, EXTRACT, HD, GPOTABLE; no paragraph, one that
\* starts with whitespace included, is yielded without a tag.
C25_EveryRecordTagged ==
  \A k \in 1..Len(html_st.records) : html_st.records[k].tag \in HtmlTags

\* a paragraph that starts with whitespace has been yielded without a tag
C25_Untagged ==
  /\ html_pc = "done"
  /\ \E k \in 1..Len(html_st.records) :
       /\ html_st.records[k].tag = None
       /\ html_st.records[k].text # <<>>
       /\ html_st.records[k].text[1] = " "

\* C29: split_numbering loses no character: when it finds a numbering, the
\* numbering followed by the text it returns is s; when it finds none, the
\* text it returns is s.
C29_NoCharacterLost ==
  (sn_pc = "done" /\ sn_in # None) =>
    IF sn_out[1] = NaN THEN sn_out[2] = sn_in
    ELSE sn_out[1] \o sn_out[2] = sn_in

\* C29's case: "1. a" is split into the numbering "1. ", with the blank, and "a"
C29_Witness ==
  /\ sn_pc = "done"
  /\ sn_in = <<"1", ".", " ", "a">>
  /\ sn_out = << <<"1", ".", " ">>, <<"a">> >>

\* a bracketed numbering with blanks inside and after it
C29_Bracketed ==
  /\ sn_pc = "done"
  /\ sn_in = <<"(", " ", "a", ")">>
  /\ sn_out = << <<"(", " ", "a", ")">>, <<>> >>

\* no numbering: the text comes back as it went in
C29_NoNumbering ==
  /\ sn_pc = "done"
  /\ sn_in = <<"a", ".", " ", "1">>
  /\ sn_out = <<NaN, sn_in>>

\* C30: get_element_text returns a string for every element of the document
\* that parse_reg_xml_tree has taken the text of, an element without a tail
\* or without a text included, so that the walk does not raise on it.
C30_TextIsString ==
  xp_pc \in {"walk", "raised"} =>
    \A i \in 1..Len(xml_tree) :
      (i <= xp_i /\ xml_tree[i].tag \in ParagraphTags) =>
        get_element_text(xml_tree, i) # TypeError

\* the walk has stopped at a paragraph that ends with an emphasised run,
\* <P>a<E>b</E></P>: the run has no tail and get_element_text raised TypeError
C30_RaisedOnNoTail ==
  /\ xp_pc = "raised" /\ xp_i \in 1..Len(xml_tree)
  /\ xml_tree[xp_i].tag = TagP
  /\ xml_tree[xp_i].text = <<"a">>
  /\ \E j \in 1..Len(xml_tree) :
       /\ getparent(xml_tree, j) = xp_i
       /\ xml_tree[j].tag = TagE
       /\ xml_tree[j].tail = None
  /\ get_element_text(xml_tree, xp_i) = TypeError

\* an element without a text and with a tail gives a string
C30_NoTextIsString ==
  /\ xp_pc = "walk" /\ xp_i > Len(xml_tree)
  /\ \E i \in 1..Len(xml_tree) :
       /\ xml_tree[i].tag = TagP /\ xml_tree[i].text = None /\ xml_tree[i].tail # None
       /\ get_element_text(xml_tree, i) # TypeError

\* C27: within one container every filing has end_page >= start_page, the
\* start_page of a filing is the end_page of the filing before it, the first
\* filing starts at the first printed page of the container, or at -1 when
\* the container has none, and the start pages never decrease.
C27_PagesChain ==
  /\ \A k \in 1..Len(pg_docs) : pg_docs[k].end_page >= pg_docs[k].start_page
  /\ \A k \in 2..Len(pg_docs) : pg_docs[k].start_page = pg_docs[k - 1].end_page
  /\ pg_docs # <<>> =>
       pg_docs[1].start_page =
         (IF PrtPages(type_element) = <<>> THEN -1
          ELSE IntOf(PrtPages(type_element)[1]))
  /\ \A k, l \in 1..Len(pg_docs) :
       k < l => pg_docs[k].start_page <= pg_docs[l].start_page

\* C27's case: three filings, the first from page 7 to page 12, the second
\* with a lower page printed inside it, the third without a page
C27_Witness ==
  /\ pg_pc = "done"
  /\ type_element = << [tag |-> "RULE", pages |-> << <<"7">>, <<"1", "2">> >>],
                       [tag |-> "RULE", pages |-> << <<"7">> >>],
                       [tag |-> "RULE", pages |-> <<>>] >>
  /\ pg_docs = << [start_page |-> 7, end_page |-> 12],
                  [start_page |-> 12, end_page |-> 12],
                  [start_page |-> 12, end_page |-> 12] >>

\* a container without a printed page: the filings are at -1
C27_NoPage ==
  /\ pg_pc = "done" /\ PrtPages(type_element) = <<>>
  /\ Len(pg_docs) = 2
  /\ \A k \in 1..2 : pg_docs[k] = [start_page |-> -1, end_page |-> -1]

\* C28: get_with_retry ends only by returning an ok response of a request it
\* issued, or by raising; it never returns without a response, whatever
\* retry_intervals is, the empty list of get() included.
C28_ReturnsResponse ==
  gw_pc = "returned" =>
    /\ IsResponse(gw_out) /\ Ok(gw_out)
    /\ gw_requests > 0 /\ gw_out = gw_r

\* with at least one retry interval the call returns an ok response of a
\* request it issued
C28_WithIntervals ==
  (gw_pc = "returned" /\ retry_intervals # <<>>) =>
    /\ IsResponse(gw_out) /\ Ok(gw_out)
    /\ gw_requests > 0 /\ gw_out = gw_r

\* the call of get(): no intervals, no request, None returned
C28_ReturnedNone ==
  /\ gw_pc = "returned" /\ retry_intervals = <<>>
  /\ gw_out = None /\ gw_requests = 0

\* the response in hand is a 429 and the call has a wait_interval above 0
RateLimitInHand ==
  gw_pc = "response" /\ StatusCode(gw_r) = 429 /\ wait_interval > 0

\* the response in hand is what the call returns: an ok response, its json
\* readable where the loop checks it
SuccessInHand ==
  /\ gw_pc = "response" /\ Ok(gw_r)
  /\ ~(check_json /\ ~JsonOk(gw_r) /\ gw_i <= Len(retry_intervals))

=============================================================================
